---------------------------- MODULE Spec2Model ----------------------------
(***************************************************************************)
(* State-machine model of luoxk/restys:                                    *)
(*   - the HTTP/2 client connection pool (clientConnPool2),                *)
(*   - Client.roundTrip and its post-response middleware,                  *)
(*   - the HTTP/3 connection (stream table, idle timer, unidirectional     *)
(*     streams, datagrams) and SingleDestinationRoundTripper.roundTrip.    *)
(* Each subsystem has its own variables and its own specification; a       *)
(* specification leaves the other subsystems' variables untouched.         *)
(***************************************************************************)
EXTENDS Integers, Sequences, FiniteSets, TLC

(***************************************************************************)
(* Bounds of the model.                                                    *)
(***************************************************************************)
\* number of connections dialClientConn may create
MaxConns == 2
\* goroutines that call AddConnIfNeeded
MaxAdders == 2
\* number of dialCall2 objects getStartDialLocked may create
MaxCalls == 2
\* number of middleware OnAfterResponse may add to the two C() installs
MaxUserMw == 2
\* number of bidirectional (request) streams opened or accepted on a connection
MaxStreams == 2
\* number of unidirectional streams the peer opens on a connection
MaxUniStreams == 2
\* number of datagrams the peer sends on a connection
MaxDatagrams == 2
\* width in bits of the variable-length integers of the model (62 in QUIC)
VarintBits == 2
\* authorize calls made on one credentials object
MaxAuthorize == 3
\* directives in one WWW-Authenticate challenge
MaxDirectives == 2
\* characters in the version token of a JA3 string
MaxVersionDigits == 3
\* tokens in one '-'-separated list of a JA3 string
MaxListTokens == 3
\* settings and pseudo-header letters in an Akamai string
MaxSettings == 2
MaxOrder == 4
\* policies of one SetRedirectPolicy, and calls of it and of the check
MaxPolicies == 3
MaxRedirectOps == 3
\* registrations and Clone on a client and its clone
MaxConfigOps == 6
\* bytes peeked, and calls of peekDrain
MaxPeek == 4
MaxPeekCalls == 4
\* bits of a uint32 (scaled down from 32)
Uint32Bits == 20

VARIABLES
    \* ---- clientConnPool2 (src/fingerprint.go) ----
    conns,        \* p.conns: key -> list of connections (a key may be absent)
    dialing,      \* p.dialing: key -> in-flight dialCall2
    keys,         \* p.keys: connection -> list of keys
    calls,        \* the dialCall2 objects some goroutine still references, by id
    nCalls,       \* number of dialCall2 objects created so far
    nConns,       \* number of connections dialClientConn has created
    ctxDone,      \* the request contexts whose Done channel is closed
    gs,           \* the goroutines running GetClientConn
    started,      \* number of GetClientConn calls entered so far
    dead,         \* history: for a connection MarkDead has returned for, the
                  \* number of GetClientConn calls entered before it first did
    refused,      \* history: some ReserveNewRequest has returned false
    dialFailed,   \* history: some shared dial has returned an error
    mu,           \* p.mu: who holds it
    addConnCalls, \* p.addConnCalls: key -> in-flight addConnCall2
    addCalls,     \* the addConnCall2 objects, by id
    adders,       \* the goroutines running AddConnIfNeeded
    \* ---- Client (src/client.go) ----
    afterResponse,  \* c.afterResponse: the post-response middleware, in order
    rt,             \* the goroutine running Client.roundTrip: its position,
                    \* resp.Err, the returned err, and the middleware calls made
    \* ---- http3 connection (src/internal/http3/conn.go) ----
    cfg,            \* perspective, idleTimeout, enableDatagrams of the connection
                    \* and SupportsDatagrams, early-connection-ness of the QUIC connection
    closeCode,      \* "open", or the code the QUIC connection was closed with
    streams,        \* c.streams: the registered stream IDs
    nStreams,       \* number of bidirectional streams opened or accepted so far
    dgQueue,        \* the queue of each stream's datagrammer
    idleTimer,      \* c.idleTimer: "nil", "armed" or "off" (stopped or expired)
    timerPending,   \* the timer expired and onIdleTimer has not run yet
    settings,       \* c.settings
    receivedSettings, \* number of times close(c.receivedSettings) has run
    rcvd,           \* rcvdControlStr, rcvdQPACKEncoderStr, rcvdQPACKDecoderStr
    accepting,      \* the AcceptUniStream loop is running
    uni,            \* the goroutines handling the accepted unidirectional streams
    dg,             \* the goroutine running receiveDatagrams
    \* ---- http3 client (src/internal/http3/client.go) ----
    handshake,      \* "none": c.Connection is no quic.EarlyConnection; else
                    \* "pending" or "complete"
    h3req,          \* the goroutine running SingleDestinationRoundTripper.RoundTrip
    \* ---- digest authentication (src/digest.go) ----
    cr,             \* a credentials object
    authLog,        \* history: the outcome of each cr.authorize() call
    dmw,            \* the middleware of handleDigestAuthFunc on one response
    \* ---- JA3 (src/client.go) ----
    ja3,            \* one call of Client.SetJa3WithStr
    lst,            \* one call of createCiphers, createCurves, createPointFormats
                    \* or createExtensions
    \* ---- other configuration (src/client.go) ----
    ak,             \* one call of Client.SetAkamaiWithStr
    rp,             \* the client's redirect check and its last call
    cln,            \* a client, its clone and the arrays behind their slices
    pk              \* an autoDecodeReadCloser's peek buffer and what was drained

addVars == <<addConnCalls, addCalls, adders>>
poolVars == <<conns, dialing, keys, calls, nCalls, nConns, ctxDone, gs, started, dead,
              refused, dialFailed, mu, addVars>>

clientVars == <<afterResponse, rt>>

connVars == <<cfg, closeCode, streams, nStreams, dgQueue, idleTimer, timerPending,
              settings, receivedSettings, rcvd, accepting, uni, dg>>
h3Vars == <<connVars, handshake, h3req>>

digestVars == <<cr, authLog, dmw>>

ja3Vars == <<ja3, lst>>
miscVars == <<ak, rp, cln, pk>>

vars == <<poolVars, clientVars, h3Vars, digestVars, ja3Vars, miscVars>>
notPoolVars == <<clientVars, h3Vars, digestVars, ja3Vars, miscVars>>
notClientVars == <<poolVars, h3Vars, digestVars, ja3Vars, miscVars>>
notH3Vars == <<poolVars, clientVars, digestVars, ja3Vars, miscVars>>
notConnVars == <<poolVars, clientVars, handshake, h3req, digestVars, ja3Vars, miscVars>>
notDigestVars == <<poolVars, clientVars, h3Vars, ja3Vars, miscVars>>
notJa3Vars == <<poolVars, clientVars, h3Vars, digestVars, miscVars>>
notMiscVars == <<poolVars, clientVars, h3Vars, digestVars, ja3Vars>>
notAkamaiVars == <<notMiscVars, rp, cln, pk>>
notRedirectVars == <<notMiscVars, ak, cln, pk>>
notCloneVars == <<notMiscVars, ak, rp, pk>>
notPeekVars == <<notMiscVars, ak, rp, cln>>

(***************************************************************************)
(* clientConnPool2                                                         *)
(***************************************************************************)
Addrs == {"a:443", "b:443"}
\* Two request contexts: one that can be cancelled, one that carries a deadline.
Ctxs == {"cancelCtx", "deadlineCtx"}
\* The goroutines that call GetClientConn, numbered in the order they enter.
Callers == {1, 2}
ConnIds == 1..MaxConns
CallIds == 1..MaxCalls
NoConn == 0
NoCall == 0
NoErr == ""
ErrNoCachedConn == "ErrNoCachedConn"
ErrCanceled == "context.Canceled"
ErrDeadlineExceeded == "context.DeadlineExceeded"
ErrOther == "dial error"

\* ctx.Err(): nil until the context is done.
CtxErr(ctx) ==
    IF ctx \notin ctxDone THEN NoErr
    ELSE IF ctx = "cancelCtx" THEN ErrCanceled ELSE ErrDeadlineExceeded

\* p.conns[key] of a Go map: the nil slice when the key is absent.
ConnsAt(key) == IF key \in DOMAIN conns THEN conns[key] ELSE <<>>
\* p.keys[cc] of a Go map.
KeysAt(cc) == IF cc \in DOMAIN keys THEN keys[cc] ELSE <<>>

SeqToSet(s) == {s[i] : i \in 1..Len(s)}

\* m[k] = v on a Go map.
MapSet(m, k, v) == [x \in (DOMAIN m) \cup {k} |-> IF x = k THEN v ELSE m[x]]
\* delete(m, k) on a Go map.
MapDelete(m, k) == [x \in (DOMAIN m) \ {k} |-> m[x]]
EmptyMap == [x \in {} |-> 0]

\* The errors dialClientConn(ctx, ...) can return: the context's own error once
\* the context is done, a dial failure, or a network timeout, which
\* errors.Is matches with context.DeadlineExceeded whatever the context's state.
DialErrs(ctx) ==
    {ErrOther, ErrDeadlineExceeded} \cup (IF CtxErr(ctx) # NoErr THEN {CtxErr(ctx)} ELSE {})

\* A mutation of filterOutClientConn2: nothing is filtered out.
filterOutClientConn2_KeepsAll(in, exclude) == in

\* filterOutClientConn2(in, exclude): in without every entry equal to exclude,
\* in order; lines 320-333.
filterOutClientConn2(in, exclude) == SelectSeq(in, LAMBDA v : v # exclude)

\* Mutant of addConnLocked: the connection is not recorded.
addConnLocked_Dropped(cs, ks, key, cc) == <<cs, ks>>

\* addConnLocked: the pair (conns, keys) after adding cc under key.
addConnLocked(cs, ks, key, cc) ==
    LET cur == IF key \in DOMAIN cs THEN cs[key] ELSE <<>>
        kcur == IF cc \in DOMAIN ks THEN ks[cc] ELSE <<>>
    IN  IF cc \in SeqToSet(cur)
        THEN <<cs, ks>>
        ELSE <<MapSet(cs, key, Append(cur, cc)), MapSet(ks, cc, Append(kcur, key))>>

\* Mutant of shouldRetryDial2: the state of the dial's context is not consulted.
shouldRetryDial2_NoCtxErr(call, reqCtx) ==
    /\ call.err \in {ErrCanceled, ErrDeadlineExceeded}
    /\ call.ctx # reqCtx

\* shouldRetryDial2(call, req), req being the request of a goroutine whose
\* context is reqCtx.
shouldRetryDial2(call, reqCtx) ==
    IF call.err = NoErr THEN FALSE
    ELSE IF call.ctx = reqCtx THEN FALSE
    ELSE IF call.err # ErrCanceled /\ call.err # ErrDeadlineExceeded THEN FALSE
    ELSE CtxErr(call.ctx) # NoErr

\* p.mu is free, or held by goroutine g of the function fn.
Free == <<"free", 0>>
Holder(fn, g) == <<fn, g>>
Unlock_Forgotten(holder) == holder
\* p.mu.Unlock() by its holder
Unlock(holder) == Free

\* A goroutine that is not inside AddConnIfNeeded.
Adders == 1..MaxAdders
IdleAdder == [pc |-> "idle", key |-> "a:443", call |-> NoCall, dup |-> FALSE,
              used |-> FALSE, err |-> NoErr]

\* A goroutine that is not inside GetClientConn.
IdleG == [pc |-> "idle", addr |-> "a:443", ctx |-> "cancelCtx", dialOnMiss |-> FALSE,
          own |-> FALSE, call |-> NoCall, res |-> NoConn, err |-> NoErr]

\* return cc, err: the call's arguments and results stay on record.
Return(g, cc, err) ==
    [gs[g] EXCEPT !.pc = "done", !.call = NoCall, !.res = cc, !.err = err]

PoolInit ==
    /\ conns = EmptyMap
    /\ dialing = EmptyMap
    /\ keys = EmptyMap
    /\ calls = EmptyMap
    /\ nCalls = 0
    /\ nConns = 0
    /\ ctxDone = {}
    /\ gs = [g \in Callers |-> IdleG]
    /\ started = 0
    /\ dead = EmptyMap
    /\ refused = FALSE
    /\ dialFailed = FALSE
    /\ mu = Free
    /\ addConnCalls = EmptyMap
    /\ addCalls = EmptyMap
    /\ adders = [a \in Adders |-> IdleAdder]

\* A goroutine enters GetClientConn(req, addr, dialOnMiss); lines 133-145.
\* Goroutines are numbered in the order in which they enter.
GetClientConnStart(g) ==
    /\ gs[g].pc = "idle"
    /\ g = started + 1
    /\ started' = g
    /\ \E addr \in Addrs, ctx \in Ctxs, dialOnMiss \in BOOLEAN, close \in BOOLEAN :
         gs' = [gs EXCEPT ![g] = [IdleG EXCEPT
                    !.pc = IF close /\ dialOnMiss THEN "dialOwn" ELSE "scan",
                    !.own = (close /\ dialOnMiss),
                    !.addr = addr, !.ctx = ctx, !.dialOnMiss = dialOnMiss]]
    /\ UNCHANGED <<conns, dialing, keys, calls, nCalls, nConns, ctxDone, dead, refused, dialFailed>>
    /\ UNCHANGED <<mu, addVars>>
    /\ UNCHANGED notPoolVars

\* Mutant of the single-use dial: the connection is put into the pool.
GetClientConnDialOwn_Pooled(g) ==
    /\ gs[g].pc = "dialOwn"
    /\ \/ /\ nConns < MaxConns
          /\ nConns' = nConns + 1
          /\ gs' = [gs EXCEPT ![g] = Return(g, nConns + 1, NoErr)]
          /\ conns' = addConnLocked(conns, keys, gs[g].addr, nConns + 1)[1]
          /\ keys' = addConnLocked(conns, keys, gs[g].addr, nConns + 1)[2]
       \/ /\ \E e \in DialErrs(gs[g].ctx) :
                gs' = [gs EXCEPT ![g] = Return(g, NoConn, e)]
          /\ UNCHANGED <<nConns, conns, keys>>
    /\ UNCHANGED <<dialing, calls, nCalls, ctxDone, started, dead, refused, dialFailed>>
    /\ UNCHANGED <<mu, addVars>>
    /\ UNCHANGED notPoolVars

\* Connection: close and dialOnMiss: the request gets its own connection; lines 135-144.
GetClientConnDialOwn(g) ==
    /\ gs[g].pc = "dialOwn"
    /\ \/ /\ nConns < MaxConns
          /\ nConns' = nConns + 1
          /\ gs' = [gs EXCEPT ![g] = Return(g, nConns + 1, NoErr)]
       \/ /\ \E e \in DialErrs(gs[g].ctx) :
                gs' = [gs EXCEPT ![g] = Return(g, NoConn, e)]
          /\ UNCHANGED nConns
    /\ UNCHANGED <<conns, dialing, keys, calls, nCalls, ctxDone, started, dead, refused, dialFailed>>
    /\ UNCHANGED <<mu, addVars>>
    /\ UNCHANGED notPoolVars

\* Mutant of getStartDialLocked: an in-flight dial is not reused.
getStartDialLocked_NoCoalesce(ctx, addr) ==
    LET id == nCalls + 1
        call == [addr |-> addr, ctx |-> ctx, state |-> "dialing",
                 res |-> NoConn, err |-> NoErr]
    IN  <<MapSet(dialing, addr, id), MapSet(calls, id, call), id>>

\* getStartDialLocked(ctx, addr): <<dialing', calls', call id>>; lines 203-215.
getStartDialLocked(ctx, addr) ==
    IF addr \in DOMAIN dialing
    THEN <<dialing, calls, dialing[addr]>>
    ELSE LET id == nCalls + 1
             call == [addr |-> addr, ctx |-> ctx, state |-> "dialing",
                      res |-> NoConn, err |-> NoErr]
         IN  <<MapSet(dialing, addr, id), MapSet(calls, id, call), id>>

\* p.mu.Lock() at the head of the loop; line 146.
GetClientConnLock(g) ==
    /\ gs[g].pc = "scan"
    /\ mu = Free
    /\ mu' = Holder("GetClientConn", g)
    /\ gs' = [gs EXCEPT ![g].pc = "locked"]
    /\ UNCHANGED <<conns, dialing, keys, calls, nCalls, nConns, ctxDone, started, dead,
                   refused, dialFailed, addVars>>
    /\ UNCHANGED notPoolVars

\* One pass of the loop under p.mu; lines 146-166.  ReserveNewRequest is asked of
\* each pooled connection in order; the first that accepts is returned.
GetClientConnScan(g) ==
    /\ gs[g].pc = "locked"
    /\ LET list == ConnsAt(gs[g].addr) IN
       \/ \E i \in 1..Len(list) :
             \* list[1..i-1] refuse, list[i] accepts
             /\ refused' = (refused \/ i > 1)
             /\ gs' = [gs EXCEPT ![g] = Return(g, list[i], NoErr)]
             /\ UNCHANGED <<dialing, calls, nCalls>>
       \/ /\ refused' = (refused \/ Len(list) > 0)
          /\ IF ~gs[g].dialOnMiss
             THEN /\ gs' = [gs EXCEPT ![g] = Return(g, NoConn, ErrNoCachedConn)]
                  /\ UNCHANGED <<dialing, calls, nCalls>>
             ELSE LET r == getStartDialLocked(gs[g].ctx, gs[g].addr) IN
                  /\ r[3] <= MaxCalls
                  /\ dialing' = r[1]
                  /\ calls' = r[2]
                  /\ nCalls' = IF r[3] > nCalls THEN r[3] ELSE nCalls
                  /\ gs' = [gs EXCEPT ![g].pc = "wait", ![g].call = r[3]]
    /\ UNCHANGED <<conns, keys, nConns, ctxDone, started, dead, dialFailed>>
    /\ mu' = Unlock(mu)
    /\ UNCHANGED addVars
    /\ UNCHANGED notPoolVars

\* The dialCall2 objects left once goroutine g drops its reference to call id:
\* a finished call nobody waits for is garbage.
Release(g, id) ==
    IF \E h \in Callers \ {g} : gs[h].pc = "wait" /\ gs[h].call = id
    THEN calls
    ELSE MapDelete(calls, id)

\* <-call.done has returned; lines 167-178.
GetClientConnAwait(g) ==
    /\ gs[g].pc = "wait"
    /\ calls[gs[g].call].state = "done"
    /\ LET call == calls[gs[g].call] IN
       IF shouldRetryDial2(call, gs[g].ctx)
       THEN /\ gs' = [gs EXCEPT ![g].pc = "scan", ![g].call = NoCall]
            /\ UNCHANGED refused
       ELSE IF call.err # NoErr
       THEN /\ gs' = [gs EXCEPT ![g] = Return(g, NoConn, call.err)]
            /\ UNCHANGED refused
       ELSE \/ /\ gs' = [gs EXCEPT ![g] = Return(g, call.res, NoErr)]
               /\ UNCHANGED refused
            \/ /\ gs' = [gs EXCEPT ![g].pc = "scan", ![g].call = NoCall]
               /\ refused' = TRUE
    /\ calls' = Release(g, gs[g].call)
    /\ UNCHANGED <<conns, dialing, keys, nCalls, nConns, ctxDone, started, dead, dialFailed>>
    /\ UNCHANGED <<mu, addVars>>
    /\ UNCHANGED notPoolVars

\* dialCall2.dial, line 121: dialClientConn returns (p.mu is not held).
DialReturn(id) ==
    /\ id \in DOMAIN calls
    /\ calls[id].state = "dialing"
    /\ \/ /\ nConns < MaxConns
          /\ nConns' = nConns + 1
          /\ calls' = [calls EXCEPT ![id].state = "returned", ![id].res = nConns + 1]
          /\ UNCHANGED dialFailed
       \/ /\ \E e \in DialErrs(calls[id].ctx) :
                calls' = [calls EXCEPT ![id].state = "returned", ![id].err = e]
          /\ dialFailed' = TRUE
          /\ UNCHANGED nConns
    /\ UNCHANGED <<conns, dialing, keys, nCalls, ctxDone, gs, started, dead, refused>>
    /\ UNCHANGED <<mu, addVars>>
    /\ UNCHANGED notPoolVars

\* dialCall2.dial, lines 123-128: the critical section that publishes the result.
DialPublish(id) ==
    /\ id \in DOMAIN calls
    /\ calls[id].state = "returned"
    /\ mu = Free
    /\ LET call == calls[id]
           r == IF call.err = NoErr
                THEN addConnLocked(conns, keys, call.addr, call.res)
                ELSE <<conns, keys>>
       IN  /\ dialing' = MapDelete(dialing, call.addr)
           /\ conns' = r[1]
           /\ keys' = r[2]
    /\ calls' = [calls EXCEPT ![id].state = "published"]
    /\ UNCHANGED <<nCalls, nConns, ctxDone, gs, started, dead, refused, dialFailed>>
    /\ mu' = Free
    /\ UNCHANGED addVars
    /\ UNCHANGED notPoolVars

\* dialCall2.dial, line 130: close(c.done).
DialDone(id) ==
    /\ id \in DOMAIN calls
    /\ calls[id].state = "published"
    /\ calls' = [calls EXCEPT ![id].state = "done"]
    /\ UNCHANGED <<conns, dialing, keys, nCalls, nConns, ctxDone, gs, started, dead, refused, dialFailed>>
    /\ UNCHANGED <<mu, addVars>>
    /\ UNCHANGED notPoolVars

\* The pool after MarkDead's loop over p.keys[cc]; lines 289-300.
RECURSIVE markDeadLoop(_, _, _)
markDeadLoop(cs, ks, cc) ==
    IF ks = <<>> THEN cs
    ELSE LET key == Head(ks) IN
         IF key \notin DOMAIN cs THEN markDeadLoop(cs, Tail(ks), cc)
         ELSE LET newList == filterOutClientConn2(cs[key], cc) IN
              markDeadLoop(IF Len(newList) > 0 THEN MapSet(cs, key, newList)
                                               ELSE MapDelete(cs, key),
                           Tail(ks), cc)

\* MarkDead(cc), one critical section; lines 286-302.  The transport calls it
\* for any connection that exists, pooled or not.
MarkDead(cc) ==
    /\ cc \in 1..nConns
    /\ mu = Free
    /\ conns' = markDeadLoop(conns, KeysAt(cc), cc)
    /\ keys' = MapDelete(keys, cc)
    /\ dead' = IF cc \in DOMAIN dead THEN dead ELSE MapSet(dead, cc, started)
    /\ UNCHANGED <<dialing, calls, nCalls, nConns, ctxDone, gs, started, refused, dialFailed>>
    /\ mu' = Free
    /\ UNCHANGED addVars
    /\ UNCHANGED notPoolVars

\* The frame of the steps of AddConnIfNeeded and of addConnCall2.run.
getVars == <<dialing, calls, nCalls, ctxDone, gs, started, dead, refused, dialFailed>>

\* A goroutine enters AddConnIfNeeded(key, t, c); line 217.
AddConnIfNeededStart(a) ==
    /\ adders[a].pc = "idle"
    /\ \E key \in Addrs : adders' = [adders EXCEPT ![a] = [IdleAdder EXCEPT !.pc = "lock", !.key = key]]
    /\ UNCHANGED <<conns, keys, nConns, mu, addConnCalls, addCalls, getVars>>
    /\ UNCHANGED notPoolVars

\* p.mu.Lock(); line 218.
AddConnIfNeededLock(a) ==
    /\ adders[a].pc = "lock"
    /\ mu = Free
    /\ mu' = Holder("AddConnIfNeeded", a)
    /\ adders' = [adders EXCEPT ![a].pc = "locked"]
    /\ UNCHANGED <<conns, keys, nConns, addConnCalls, addCalls, getVars>>
    /\ UNCHANGED notPoolVars

\* Under p.mu, lines 219-239: a pooled connection that can take a request
\* makes the call return; otherwise the caller joins the addConnCall2 of the
\* key or starts one, unlocks and waits.
AddConnIfNeededCheck(a) ==
    /\ adders[a].pc = "locked"
    /\ LET key == adders[a].key IN
       \/ /\ ConnsAt(key) # <<>>
          /\ adders' = [adders EXCEPT ![a].pc = "done"]
          /\ UNCHANGED <<addConnCalls, addCalls>>
       \/ IF key \in DOMAIN addConnCalls
          THEN /\ adders' = [adders EXCEPT ![a].pc = "wait", ![a].dup = TRUE,
                                           ![a].call = addConnCalls[key]]
               /\ UNCHANGED <<addConnCalls, addCalls>>
          ELSE LET id == Cardinality(DOMAIN addCalls) + 1 IN
               /\ addConnCalls' = MapSet(addConnCalls, key, id)
               /\ addCalls' = MapSet(addCalls, id, [key |-> key, state |-> "running",
                                                    res |-> NoConn, err |-> NoErr])
               /\ adders' = [adders EXCEPT ![a].pc = "wait", ![a].call = id]
    /\ mu' = Unlock(mu)
    /\ UNCHANGED <<conns, keys, nConns, getVars>>
    /\ UNCHANGED notPoolVars

\* addConnCall2.run, line 254: t.NewClientConn(tc) returns (p.mu is not held).
AddConnRunNew(id) ==
    /\ id \in DOMAIN addCalls
    /\ addCalls[id].state = "running"
    /\ \/ /\ nConns < MaxConns
          /\ nConns' = nConns + 1
          /\ addCalls' = [addCalls EXCEPT ![id].state = "returned", ![id].res = nConns + 1]
       \/ /\ addCalls' = [addCalls EXCEPT ![id].state = "returned", ![id].err = ErrOther]
          /\ UNCHANGED nConns
    /\ UNCHANGED <<conns, keys, mu, addConnCalls, adders, getVars>>
    /\ UNCHANGED notPoolVars

\* addConnCall2.run, lines 256-265: the critical section that publishes.
AddConnRunPublish(id) ==
    /\ id \in DOMAIN addCalls
    /\ addCalls[id].state = "returned"
    /\ mu = Free
    /\ LET call == addCalls[id]
           r == IF call.err = NoErr
                THEN addConnLocked(conns, keys, call.key, call.res)
                ELSE <<conns, keys>>
       IN  /\ conns' = r[1]
           /\ keys' = r[2]
           /\ addConnCalls' = MapDelete(addConnCalls, call.key)
    /\ addCalls' = [addCalls EXCEPT ![id].state = "published"]
    /\ mu' = Free
    /\ UNCHANGED <<nConns, adders, getVars>>
    /\ UNCHANGED notPoolVars

\* addConnCall2.run, line 266: close(c.done).
AddConnRunDone(id) ==
    /\ id \in DOMAIN addCalls
    /\ addCalls[id].state = "published"
    /\ addCalls' = [addCalls EXCEPT ![id].state = "done"]
    /\ UNCHANGED <<conns, keys, nConns, mu, addConnCalls, adders, getVars>>
    /\ UNCHANGED notPoolVars

\* <-call.done has returned; lines 241-245.
AddConnIfNeededAwait(a) ==
    /\ adders[a].pc = "wait"
    /\ addCalls[adders[a].call].state = "done"
    /\ LET call == addCalls[adders[a].call] IN
       adders' = [adders EXCEPT ![a].pc = "done", ![a].err = call.err,
                                ![a].used = (call.err = NoErr /\ ~adders[a].dup)]
    /\ UNCHANGED <<conns, keys, nConns, mu, addConnCalls, addCalls, getVars>>
    /\ UNCHANGED notPoolVars

\* A request context is cancelled or its deadline passes.
ContextDone(ctx) ==
    /\ ctx \notin ctxDone
    /\ ctxDone' = ctxDone \cup {ctx}
    /\ UNCHANGED <<conns, dialing, keys, calls, nCalls, nConns, gs, started, dead, refused, dialFailed>>
    /\ UNCHANGED <<mu, addVars>>
    /\ UNCHANGED notPoolVars

PoolNext ==
    \/ \E g \in Callers : GetClientConnStart(g)
    \/ \E g \in Callers : GetClientConnDialOwn(g)
    \/ \E g \in Callers : GetClientConnLock(g)
    \/ \E g \in Callers : GetClientConnScan(g)
    \/ \E g \in Callers : GetClientConnAwait(g)
    \/ \E id \in CallIds : DialReturn(id)
    \/ \E id \in CallIds : DialPublish(id)
    \/ \E id \in CallIds : DialDone(id)
    \/ \E cc \in ConnIds : MarkDead(cc)
    \/ \E ctx \in Ctxs : ContextDone(ctx)

\* AddConnIfNeeded calls, their addConnCall2 goroutines and MarkDead.
\* The connections that have accepted a reservation: those some call returned.
Reserved ==
    {gs[g].res : g \in {x \in Callers : gs[x].pc = "done" /\ gs[x].err = NoErr}}

\* The pass of the loop under p.mu with connections that accept at least one
\* reservation: ReserveNewRequest returns false only on a connection that has
\* accepted a reservation before.
GetClientConnScanFresh(g) ==
    /\ GetClientConnScan(g)
    /\ LET list == ConnsAt(gs[g].addr)
           turnedAway ==
              IF gs'[g].pc = "done" /\ gs'[g].err = NoErr
              THEN {list[j] : j \in {k \in 1..Len(list) :
                                       \E i \in (k + 1)..Len(list) : list[i] = gs'[g].res}}
              ELSE SeqToSet(list)
       IN  turnedAway \subseteq Reserved

\* The return of <-call.done with connections that accept at least one
\* reservation.
GetClientConnAwaitFresh(g) ==
    /\ GetClientConnAwait(g)
    /\ (gs'[g].pc = "scan" /\ calls[gs[g].call].err = NoErr)
          => calls[gs[g].call].res \in Reserved

\* The pool with connections that accept at least one reservation.
PoolFreshNext ==
    \/ \E g \in Callers : GetClientConnStart(g)
    \/ \E g \in Callers : GetClientConnDialOwn(g)
    \/ \E g \in Callers : GetClientConnLock(g)
    \/ \E g \in Callers : GetClientConnScanFresh(g)
    \/ \E g \in Callers : GetClientConnAwaitFresh(g)
    \/ \E id \in CallIds : DialReturn(id)
    \/ \E id \in CallIds : DialPublish(id)
    \/ \E id \in CallIds : DialDone(id)
    \/ \E cc \in ConnIds : MarkDead(cc)
    \/ \E ctx \in Ctxs : ContextDone(ctx)

AddConnNext ==
    \/ \E a \in Adders : AddConnIfNeededStart(a)
    \/ \E a \in Adders : AddConnIfNeededLock(a)
    \/ \E a \in Adders : AddConnIfNeededCheck(a)
    \/ \E id \in Adders : AddConnRunNew(id)
    \/ \E id \in Adders : AddConnRunPublish(id)
    \/ \E id \in Adders : AddConnRunDone(id)
    \/ \E a \in Adders : AddConnIfNeededAwait(a)
    \/ \E cc \in ConnIds : MarkDead(cc)

(***************************************************************************)
(* Client.roundTrip and the post-response middleware                       *)
(***************************************************************************)
\* The middleware C() installs, and those a user may add.
DefaultAfterResponse == <<"parseResponseBody", "handleDownload">>
UserMiddleware == {"userA", "userB"}

NilErr == [kind |-> "nil", at |-> 0]
GetBodyErr == [kind |-> "GetBody", at |-> 0]
TransportErr == [kind |-> "transport", at |-> 0]
\* The error returned by the k-th middleware of the chain.
MiddlewareErr(k) == [kind |-> "middleware", at |-> k]

IdleRT == [pc |-> "idle", hasGetBody |-> FALSE, sent |-> FALSE, i |-> 0,
           resp |-> "nil", respErr |-> NilErr, err |-> NilErr, invoked |-> <<>>]

ClientInit ==
    /\ afterResponse = DefaultAfterResponse
    /\ rt = IdleRT

\* OnAfterResponse(m): append to c.afterResponse; lines 1311-1315.  The client
\* is configured before it sends requests.
OnAfterResponse(m) ==
    /\ rt.pc = "idle"
    /\ Len(afterResponse) < Len(DefaultAfterResponse) + MaxUserMw
    /\ afterResponse' = Append(afterResponse, m)
    /\ UNCHANGED rt
    /\ UNCHANGED notClientVars

\* roundTrip is entered: resp = &Response{Request: r}; lines 2533-2563.
RoundTripEnter ==
    /\ rt.pc = "idle"
    /\ \E b \in BOOLEAN :
          rt' = [IdleRT EXCEPT !.pc = "getBody", !.hasGetBody = b, !.resp = "Response"]
    /\ UNCHANGED afterResponse
    /\ UNCHANGED notClientVars

\* reqBody, resp.Err = r.GetBody(); lines 2565-2571.
RoundTripGetBody ==
    /\ rt.pc = "getBody"
    /\ \/ rt' = [rt EXCEPT !.pc = "do"]
       \/ /\ rt.hasGetBody
          /\ rt' = [rt EXCEPT !.pc = "return", !.respErr = GetBodyErr]
    /\ UNCHANGED afterResponse
    /\ UNCHANGED notClientVars

\* httpResponse, resp.Err = c.httpClient.Do(r.RawRequest); lines 2613-2622.
RoundTripDo ==
    /\ rt.pc = "do"
    /\ \E e \in {NilErr, TransportErr} :
           rt' = [rt EXCEPT !.pc = "afterResponse", !.sent = TRUE, !.i = 1, !.respErr = e]
    /\ UNCHANGED afterResponse
    /\ UNCHANGED notClientVars

\* One iteration of the loop over c.afterResponse: f returns nil or an error;
\* lines 2624-2628.
RoundTripAfterResponse ==
    /\ rt.pc = "afterResponse"
    /\ rt.i <= Len(afterResponse)
    /\ \E e \in {NilErr, MiddlewareErr(rt.i)} :
           rt' = [rt EXCEPT
                    !.respErr = IF e # NilErr THEN e ELSE rt.respErr,
                    !.invoked = Append(rt.invoked, [mw |-> afterResponse[rt.i], e |-> e]),
                    !.i = rt.i + 1]
    /\ UNCHANGED afterResponse
    /\ UNCHANGED notClientVars

\* A mutation of roundTripDeferred: the function is not deferred.
roundTripDeferred_Missing(respErr, err) == <<respErr, err>>

\* The deferred function of roundTrip: <<resp.Err, err>> after it; lines
\* 2535-2541.
roundTripDeferred(respErr, err) ==
    IF err # NilErr THEN <<err, err>> ELSE <<respErr, respErr>>

\* return, with the deferred function: the named result err is nil at every
\* return statement, so it takes resp.Err; lines 2535-2541, 2569, 2629.
RoundTripReturn ==
    /\ \/ rt.pc = "return"
       \/ rt.pc = "afterResponse" /\ rt.i > Len(afterResponse)
    /\ rt' = [rt EXCEPT !.pc = "done",
                        !.respErr = roundTripDeferred(rt.respErr, rt.err)[1],
                        !.err = roundTripDeferred(rt.respErr, rt.err)[2]]
    /\ UNCHANGED afterResponse
    /\ UNCHANGED notClientVars

ClientNext ==
    \/ \E m \in UserMiddleware : OnAfterResponse(m)
    \/ RoundTripEnter
    \/ RoundTripGetBody
    \/ RoundTripDo
    \/ RoundTripAfterResponse
    \/ RoundTripReturn

(***************************************************************************)
(* http3.connection                                                        *)
(***************************************************************************)
ErrCodeNoError == "H3_NO_ERROR"
ErrCodeStreamCreationError == "H3_STREAM_CREATION_ERROR"
ErrCodeIDError == "H3_ID_ERROR"
ErrCodeFrameError == "H3_FRAME_ERROR"
ErrCodeMissingSettings == "H3_MISSING_SETTINGS"
ErrCodeSettingsError == "H3_SETTINGS_ERROR"
ErrCodeDatagramError == "H3_DATAGRAM_ERROR"
\* the peer or the transport ended the connection
PeerClosed == "closed by peer"
Open == "open"

\* The largest value quicvarint.Parse can return.
MaxVarint == 2^VarintBits - 1
\* The largest quarter stream ID receiveDatagrams accepts.
maxQuarterStreamID == MaxVarint

\* The bidirectional stream IDs of requests: 0, 4, 8, ...
StreamID(n) == 4 * n
StreamIDs == {StreamID(n) : n \in 0..(MaxStreams - 1)}
UniStreams == 1..MaxUniStreams
StreamTypes == {"control", "qpackEncoder", "qpackDecoder", "push", "unknown", "readError"}
\* What the first frame of a control stream parses to.
FirstFrames ==
    {[kind |-> "error"], [kind |-> "other"]} \cup
    {[kind |-> "settings", Datagram |-> d, ExtendedConnect |-> e] :
        d \in BOOLEAN, e \in BOOLEAN}
NoSettings == [kind |-> "nil"]
\* A received datagram: quicvarint.Parse fails on it, or yields a quarter
\* stream ID.
Datagrams ==
    {[parses |-> FALSE, q |-> 0]} \cup {[parses |-> TRUE, q |-> q] : q \in 0..MaxVarint}
NoDatagram == [parses |-> FALSE, q |-> -1]

\* c.Connection.CloseWithError(code, ...): the first close decides the code.
QuicClose(code) == IF closeCode = Open THEN code ELSE closeCode

\* (*time.Timer).Stop on c.idleTimer.
TimerStop(t) == IF t = "armed" THEN "off" ELSE t

\* The request goroutine before RoundTrip is called.
IdleReq ==
    [pc |-> "idle", method |-> "", extended |-> FALSE, ctxDone |-> FALSE,
     stream |-> -1, err |-> "", rsp |-> FALSE, status |-> 0, num1xx |-> 0,
     watcher |-> "none", reqDone |-> FALSE, canceled |-> {},
     \* history: which of the context's end and the closing of reqDone came
     \* first once the stream was open, and whether both had happened when
     \* the cancellation goroutine reached its select
     first |-> "", raced |-> FALSE]

\* The configurations of a connection: the arguments of newConnection, and
\* whether the QUIC connection supports datagrams.
Configs ==
    [perspective : {"client", "server"}, idleTimeout : {0, 1},
     enableDatagrams : BOOLEAN, supportsDatagrams : BOOLEAN]

\* newConnection; lines 61-84.
ConnInit(configs, handshakes) ==
    /\ handshake \in handshakes
    /\ h3req = IdleReq
    /\ cfg \in configs
    /\ closeCode = Open
    /\ streams = {}
    /\ nStreams = 0
    /\ dgQueue = [id \in StreamIDs |-> <<>>]
    /\ idleTimer = IF cfg.idleTimeout > 0 THEN "armed" ELSE "nil"
    /\ timerPending = FALSE
    /\ settings = NoSettings
    /\ receivedSettings = 0
    /\ rcvd = [control |-> FALSE, qpackEncoder |-> FALSE, qpackDecoder |-> FALSE]
    /\ accepting = TRUE
    /\ uni = [s \in UniStreams |-> [pc |-> "none", type |-> "", frame |-> NoSettings]]
    /\ dg = [pc |-> "off", n |-> 0, b |-> NoDatagram, to |-> -1, inbox |-> <<>>]

\* The time of c.idleTimer comes: onIdleTimer is started in its own goroutine.
IdleTimerExpires ==
    /\ idleTimer = "armed"
    /\ idleTimer' = "off"
    /\ timerPending' = TRUE
    /\ UNCHANGED <<cfg, closeCode, streams, nStreams, dgQueue, settings,
                   receivedSettings, rcvd, accepting, uni, dg>>
    /\ UNCHANGED notConnVars

\* onIdleTimer: c.CloseWithError(ErrCodeNoError), which stops the timer and
\* closes the QUIC connection; lines 86-88 and 165-170.
OnIdleTimer ==
    /\ timerPending
    /\ timerPending' = FALSE
    /\ idleTimer' = TimerStop(idleTimer)
    /\ closeCode' = QuicClose(ErrCodeNoError)
    /\ UNCHANGED <<cfg, streams, nStreams, dgQueue, settings,
                   receivedSettings, rcvd, accepting, uni, dg>>
    /\ UNCHANGED notConnVars

\* clearStream(id); lines 90-98.
ClearStream(id) ==
    /\ id \in streams
    /\ streams' = streams \ {id}
    /\ idleTimer' = IF cfg.idleTimeout > 0 /\ streams' = {} THEN "armed" ELSE idleTimer
    /\ UNCHANGED <<cfg, closeCode, nStreams, dgQueue, timerPending, settings,
                   receivedSettings, rcvd, accepting, uni, dg>>
    /\ UNCHANGED notConnVars

\* The stream table after openRequestStream registered a new stream; lines
\* 111-114.  The idle timer is not touched.
openRequestStream(id) == streams \cup {id}

\* openRequestStream called on the connection (OpenRequestStream): OpenStreamSync
\* succeeds while the connection is open; lines 100-126.
OpenRequestStream ==
    /\ closeCode = Open
    /\ nStreams < MaxStreams
    /\ nStreams' = nStreams + 1
    /\ streams' = openRequestStream(StreamID(nStreams))
    /\ UNCHANGED <<cfg, closeCode, dgQueue, idleTimer, timerPending, settings,
                   receivedSettings, rcvd, accepting, uni, dg>>
    /\ UNCHANGED notConnVars

\* acceptStream: only a server registers the stream, and stops the idle timer
\* if it is the only one; lines 144-163.
AcceptStream ==
    /\ closeCode = Open
    /\ nStreams < MaxStreams
    /\ nStreams' = nStreams + 1
    /\ IF cfg.perspective = "server"
       THEN /\ streams' = streams \cup {StreamID(nStreams)}
            /\ idleTimer' = IF cfg.idleTimeout > 0 /\ Cardinality(streams') = 1
                             THEN TimerStop(idleTimer) ELSE idleTimer
       ELSE UNCHANGED <<streams, idleTimer>>
    /\ UNCHANGED <<cfg, closeCode, dgQueue, timerPending, settings,
                   receivedSettings, rcvd, accepting, uni, dg>>
    /\ UNCHANGED notConnVars

\* The peer or the transport closes the QUIC connection.
ConnectionLost ==
    /\ closeCode = Open
    /\ closeCode' = PeerClosed
    /\ UNCHANGED <<cfg, streams, nStreams, dgQueue, idleTimer, timerPending, settings,
                   receivedSettings, rcvd, accepting, uni, dg>>
    /\ UNCHANGED notConnVars

\* HandleUnidirectionalStreams: AcceptUniStream returns a stream, handled in
\* a new goroutine, or an error once the connection is closed; lines 179-188.
AcceptUniStream(s) ==
    /\ accepting
    /\ uni[s].pc = "none"
    /\ \A t \in UniStreams : t < s => uni[t].pc # "none"
    /\ IF closeCode = Open
       THEN /\ uni' = [uni EXCEPT ![s].pc = "accepted"]
            /\ UNCHANGED accepting
       ELSE /\ accepting' = FALSE
            /\ UNCHANGED uni
    /\ UNCHANGED <<cfg, closeCode, streams, nStreams, dgQueue, idleTimer, timerPending,
                   settings, receivedSettings, rcvd, dg>>
    /\ UNCHANGED notConnVars

\* A mutation of uniStreamNext: a duplicate stream is let through.
uniStreamNext_NoDuplicateCheck(ty, swapped) ==
    IF ty = "control" THEN "parse" ELSE "done"

\* Where the goroutine of a control or QPACK stream goes on after its swap,
\* which found the flag set (swapped) or not; lines 204-208, 210-214, 240-243.
uniStreamNext(ty, swapped) ==
    IF swapped THEN "closeDuplicate"
    ELSE IF ty = "control" THEN "parse" ELSE "done"

\* The stream's goroutine reads the stream type and, for a control or QPACK
\* stream, swaps its flag; lines 189-243.
UniStreamType(s) ==
    /\ uni[s].pc = "accepted"
    /\ \E ty \in StreamTypes :
       IF ty \in {"readError", "unknown"}
       THEN \* hijacked, logged, or CancelRead on the stream: lines 190-199, 225-237
            /\ uni' = [uni EXCEPT ![s].pc = "done", ![s].type = ty]
            /\ UNCHANGED rcvd
       ELSE IF ty = "push"
       THEN /\ uni' = [uni EXCEPT ![s].pc = "closePush", ![s].type = ty]
            /\ UNCHANGED rcvd
       ELSE \* CompareAndSwap(false, true)
            /\ rcvd' = [rcvd EXCEPT ![ty] = TRUE]
            /\ uni' = [uni EXCEPT ![s].type = ty, ![s].pc = uniStreamNext(ty, rcvd[ty])]
    /\ UNCHANGED <<cfg, closeCode, streams, nStreams, dgQueue, idleTimer, timerPending,
                   settings, receivedSettings, accepting, dg>>
    /\ UNCHANGED notConnVars

\* The CloseWithError that follows a failed swap or a push stream; lines
\* 205, 211, 216-224, 241.
UniStreamClose(s) ==
    /\ uni[s].pc \in {"closeDuplicate", "closePush"}
    /\ closeCode' = QuicClose(
            IF uni[s].pc = "closeDuplicate" THEN ErrCodeStreamCreationError
            ELSE IF cfg.perspective = "client" THEN ErrCodeIDError
            ELSE ErrCodeStreamCreationError)
    /\ uni' = [uni EXCEPT ![s].pc = "closed"]
    /\ UNCHANGED <<cfg, streams, nStreams, dgQueue, idleTimer, timerPending,
                   settings, receivedSettings, rcvd, accepting, dg>>
    /\ UNCHANGED notConnVars

\* A mutation of firstFrameError: every first frame that is not SETTINGS is
\* reported as one that could not be parsed.
firstFrameError_AlwaysFrameError(f) == ErrCodeFrameError

\* The code the connection is closed with when the first frame of the control
\* stream is not a SETTINGS frame: ParseNext failed, or the frame is of
\* another type; lines 245-253.
firstFrameError(f) ==
    IF f.kind = "error" THEN ErrCodeFrameError ELSE ErrCodeMissingSettings

\* The first control stream: fp.ParseNext() and the checks on the frame;
\* lines 244-254.
ControlStreamParse(s) ==
    /\ uni[s].pc = "parse"
    /\ \E f \in FirstFrames :
         IF f.kind = "settings"
         THEN /\ uni' = [uni EXCEPT ![s].pc = "store", ![s].frame = f]
              /\ UNCHANGED closeCode
         ELSE \* the frame field keeps what ParseNext returned
              /\ uni' = [uni EXCEPT ![s].pc = "done", ![s].frame = f]
              /\ closeCode' = QuicClose(firstFrameError(f))
    /\ UNCHANGED <<cfg, streams, nStreams, dgQueue, idleTimer, timerPending,
                   settings, receivedSettings, rcvd, accepting, dg>>
    /\ UNCHANGED notConnVars

\* c.settings = &Settings{...}; lines 255-259.
ControlStreamStore(s) ==
    /\ uni[s].pc = "store"
    /\ settings' = uni[s].frame
    /\ uni' = [uni EXCEPT ![s].pc = "ready"]
    /\ UNCHANGED <<cfg, closeCode, streams, nStreams, dgQueue, idleTimer, timerPending,
                   receivedSettings, rcvd, accepting, dg>>
    /\ UNCHANGED notConnVars

\* close(c.receivedSettings), then the datagram checks and
\* go c.receiveDatagrams(); lines 260-277.
ControlStreamReady(s) ==
    /\ uni[s].pc = "ready"
    /\ receivedSettings' = receivedSettings + 1
    /\ uni' = [uni EXCEPT ![s].pc = "done", ![s].frame = NoSettings]
    /\ IF ~uni[s].frame.Datagram
       THEN UNCHANGED <<closeCode, dg>>
       ELSE IF cfg.enableDatagrams /\ ~cfg.supportsDatagrams
       THEN /\ closeCode' = QuicClose(ErrCodeSettingsError)
            /\ UNCHANGED dg
       ELSE /\ dg' = [dg EXCEPT !.pc = "receive"]
            /\ UNCHANGED closeCode
    /\ UNCHANGED <<cfg, streams, nStreams, dgQueue, idleTimer, timerPending,
                   settings, rcvd, accepting>>
    /\ UNCHANGED notConnVars

\* A mutation of receiveDatagram: a datagram for an unknown stream closes the
\* connection.
receiveDatagram_CloseOnUnknownStream(b) ==
    IF ~b.parses \/ b.q > maxQuarterStreamID \/ 4 * b.q \notin streams
    THEN <<QuicClose(ErrCodeDatagramError), "failed", -1>>
    ELSE <<closeCode, "enqueue", 4 * b.q>>

\* A mutation of receiveDatagram: a quarter stream ID that cannot be parsed is
\* read as 0.
receiveDatagram_NoParseError(b) ==
    IF 4 * b.q \notin streams
    THEN <<closeCode, "returned", -1>>
    ELSE <<closeCode, "enqueue", 4 * b.q>>

\* receiveDatagrams on the received datagram b, up to the look-up of its
\* stream: <<closeCode', dg.pc', the stream found>>; lines 296-312.
receiveDatagram(b) ==
    IF ~b.parses \/ b.q > maxQuarterStreamID
    THEN <<QuicClose(ErrCodeDatagramError), "failed", -1>>
    ELSE LET streamID == 4 * b.q IN
         IF streamID \notin streams
         THEN <<closeCode, "returned", -1>>
         ELSE <<closeCode, "enqueue", streamID>>

\* The QUIC connection receives a datagram of the peer and queues it for
\* ReceiveDatagram, whether or not receiveDatagrams is running.
DatagramArrives ==
    /\ closeCode = Open
    /\ dg.n + Len(dg.inbox) < MaxDatagrams
    /\ \E b \in Datagrams : dg' = [dg EXCEPT !.inbox = Append(@, b)]
    /\ UNCHANGED <<cfg, closeCode, streams, nStreams, dgQueue, idleTimer, timerPending,
                   settings, receivedSettings, rcvd, accepting, uni>>
    /\ UNCHANGED notConnVars

\* receiveDatagrams: ReceiveDatagram returns the next datagram, or an error
\* once the connection is closed; lines 292-295.
ReceiveDatagram ==
    /\ dg.pc = "receive"
    /\ IF closeCode # Open
       THEN dg' = [dg EXCEPT !.pc = "failed"]
       ELSE /\ dg.inbox # <<>>
            /\ dg' = [dg EXCEPT !.pc = "parse", !.n = @ + 1, !.b = Head(dg.inbox),
                                !.inbox = Tail(@)]
    /\ UNCHANGED <<cfg, closeCode, streams, nStreams, dgQueue, idleTimer, timerPending,
                   settings, receivedSettings, rcvd, accepting, uni>>
    /\ UNCHANGED notConnVars

\* receiveDatagrams: the quarter stream ID is parsed and checked, and the
\* stream looked up under streamMx; lines 296-312.
ReceiveDatagramParse ==
    /\ dg.pc = "parse"
    /\ LET r == receiveDatagram(dg.b) IN
       /\ closeCode' = r[1]
       /\ dg' = [dg EXCEPT !.pc = r[2], !.to = r[3],
                           !.b = IF r[2] = "enqueue" THEN @ ELSE NoDatagram]
    /\ UNCHANGED <<cfg, streams, nStreams, dgQueue, idleTimer, timerPending,
                   settings, receivedSettings, rcvd, accepting, uni>>
    /\ UNCHANGED notConnVars

\* receiveDatagrams: dg.enqueue(b[n:]), the payload being that of the dg.n-th
\* datagram; line 313.
ReceiveDatagramEnqueue ==
    /\ dg.pc = "enqueue"
    /\ dgQueue' = [dgQueue EXCEPT ![dg.to] = Append(@, dg.n)]
    /\ dg' = [dg EXCEPT !.pc = "receive", !.to = -1, !.b = NoDatagram]
    /\ UNCHANGED <<cfg, closeCode, streams, nStreams, idleTimer, timerPending,
                   settings, receivedSettings, rcvd, accepting, uni>>
    /\ UNCHANGED notConnVars

\* The idle timer and the stream table.
H3IdleNext ==
    \/ IdleTimerExpires
    \/ OnIdleTimer
    \/ \E id \in StreamIDs : ClearStream(id)
    \/ OpenRequestStream
    \/ AcceptStream
    \/ ConnectionLost

\* The unidirectional streams.
H3UniNext ==
    \/ ConnectionLost
    \/ \E s \in UniStreams : AcceptUniStream(s)
    \/ \E s \in UniStreams : UniStreamType(s)
    \/ \E s \in UniStreams : UniStreamClose(s)
    \/ \E s \in UniStreams : ControlStreamParse(s)
    \/ \E s \in UniStreams : ControlStreamStore(s)
    \/ \E s \in UniStreams : ControlStreamReady(s)

\* The datagrams and the stream table.
H3DatagramNext ==
    \/ \E id \in StreamIDs : ClearStream(id)
    \/ OpenRequestStream
    \/ AcceptStream
    \/ ConnectionLost
    \* the peer opens one unidirectional stream
    \/ AcceptUniStream(1)
    \/ UniStreamType(1)
    \/ UniStreamClose(1)
    \/ ControlStreamParse(1)
    \/ ControlStreamStore(1)
    \/ ControlStreamReady(1)
    \/ DatagramArrives
    \/ ReceiveDatagram
    \/ ReceiveDatagramParse
    \/ ReceiveDatagramEnqueue

(***************************************************************************)
(* http3.SingleDestinationRoundTripper                                     *)
(***************************************************************************)
MethodGet0RTT == "GET_0RTT"
MethodHead0RTT == "HEAD_0RTT"
Methods == {"GET", "CONNECT", MethodGet0RTT, MethodHead0RTT}
max1xxResponses == 5
ErrReqContext == "req.Context().Err()"
ErrConnContext == "context.Cause(connCtx)"
ErrOpenStream == "OpenStreamSync error"
ErrNoExtendedConnect == "http3: server didn't enable Extended CONNECT"
ErrSendHeader == "SendRequestHeader error"
ErrReadResponse == "ReadResponse error"
ErrTooMany1xx == "http: too many 1xx informational responses"
ErrTrace == "Got1xxResponse error"

\* <-c.hconn.ReceivedSettings() can proceed.
settingsArrived == receivedSettings > 0

\* A mutation of extendedConnectAllowed: the settings are not looked at.
extendedConnectAllowed_Always(s) == TRUE

\* c.hconn.Settings().EnableExtendedConnect; line 193.
extendedConnectAllowed(s) == s.ExtendedConnect

\* Where roundTrip goes on after the wait for the handshake.
AfterHandshake(ext) == IF ext THEN "settings" ELSE "open"

\* roundTrip returns the error e and RoundTrip replaces it by the error of a
\* done request context; lines 150-155.
H3Return(e) ==
    [h3req EXCEPT !.pc = "done",
                  !.err = IF h3req.ctxDone THEN ErrReqContext ELSE e]

\* RoundTrip is called with a request: the switch on req.Method; lines
\* 147-181.  A request is an Extended CONNECT only if its method is CONNECT.
H3RoundTrip ==
    /\ h3req.pc = "idle"
    /\ \E m \in Methods, ext \in BOOLEAN :
         /\ ext => m = "CONNECT"
         /\ h3req' = [h3req EXCEPT
                !.method = m, !.extended = ext,
                !.pc = IF m \notin {MethodGet0RTT, MethodHead0RTT} /\ handshake # "none"
                       THEN "handshake" ELSE AfterHandshake(ext)]
    /\ UNCHANGED <<connVars, handshake>>
    /\ UNCHANGED notH3Vars

\* A mutation of H3AwaitHandshake: the select falls through at once.
H3AwaitHandshake_NoWait ==
    /\ h3req.pc = "handshake"
    /\ h3req' = [h3req EXCEPT !.pc = AfterHandshake(h3req.extended)]
    /\ UNCHANGED <<connVars, handshake>>
    /\ UNCHANGED notH3Vars

\* The select on HandshakeComplete() and req.Context().Done(); lines 175-179.
H3AwaitHandshake ==
    /\ h3req.pc = "handshake"
    /\ \/ /\ handshake = "complete"
          /\ h3req' = [h3req EXCEPT !.pc = AfterHandshake(h3req.extended)]
       \/ /\ h3req.ctxDone
          /\ h3req' = H3Return(ErrReqContext)
    /\ UNCHANGED <<connVars, handshake>>
    /\ UNCHANGED notH3Vars

\* An Extended CONNECT request: the select on ReceivedSettings() and
\* connCtx.Done(), then the check of the settings; lines 185-196.
H3AwaitSettings ==
    /\ h3req.pc = "settings"
    /\ \/ /\ settingsArrived
          /\ h3req' = IF extendedConnectAllowed(settings)
                       THEN [h3req EXCEPT !.pc = "open"]
                       ELSE H3Return(ErrNoExtendedConnect)
       \/ /\ closeCode # Open
          /\ h3req' = H3Return(ErrConnContext)
    /\ UNCHANGED <<connVars, handshake>>
    /\ UNCHANGED notH3Vars

\* c.hconn.openRequestStream: OpenStreamSync fails on a closed connection or a
\* done request context; else the stream is registered and the goroutine that
\* watches for the request's cancellation is started; lines 198-216.
H3OpenRequestStream ==
    /\ h3req.pc = "open"
    /\ \/ /\ closeCode = Open
          /\ nStreams < MaxStreams
          /\ nStreams' = nStreams + 1
          /\ streams' = openRequestStream(StreamID(nStreams))
          /\ h3req' = [h3req EXCEPT !.pc = "sendHeader", !.stream = StreamID(nStreams),
                                     !.watcher = "started",
                                     !.first = IF h3req.ctxDone THEN "ctx" ELSE ""]
       \/ /\ closeCode # Open \/ h3req.ctxDone
          /\ h3req' = H3Return(ErrOpenStream)
          /\ UNCHANGED <<nStreams, streams>>
    /\ UNCHANGED <<cfg, closeCode, dgQueue, idleTimer, timerPending, settings,
                   receivedSettings, rcvd, accepting, uni, dg, handshake>>
    /\ UNCHANGED notH3Vars

\* A goroutine blocked in the select of lines 210-215 is woken by the first
\* of its two channels that is closed, and takes that case.
wake(w, to) == IF w = "blocked" THEN to ELSE w

\* The goroutine started at line 208 reaches its select: it takes a case that
\* is ready (either, if both are), or blocks; lines 208-215.
H3CancelWatcher ==
    /\ h3req.watcher = "started"
    /\ \/ /\ h3req.ctxDone
          /\ h3req' = [h3req EXCEPT !.watcher = "cancelling",
                                     !.raced = h3req.reqDone]
       \/ /\ h3req.reqDone
          /\ h3req' = [h3req EXCEPT !.watcher = "done", !.raced = h3req.ctxDone]
       \/ /\ ~h3req.ctxDone /\ ~h3req.reqDone
          /\ h3req' = [h3req EXCEPT !.watcher = "blocked"]
    /\ UNCHANGED <<connVars, handshake>>
    /\ UNCHANGED notH3Vars

\* A mutation of H3CancelStream: only the write side is cancelled.
H3CancelStream_WriteOnly ==
    /\ h3req.watcher = "cancelling"
    /\ h3req' = [h3req EXCEPT !.watcher = "done", !.canceled = {"write"}]
    /\ UNCHANGED <<connVars, handshake>>
    /\ UNCHANGED notH3Vars

\* The case of the done request context: str.CancelWrite and str.CancelRead
\* with ErrCodeRequestCanceled; lines 211-213.
H3CancelStream ==
    /\ h3req.watcher = "cancelling"
    /\ h3req' = [h3req EXCEPT !.watcher = "done", !.canceled = {"write", "read"}]
    /\ UNCHANGED <<connVars, handshake>>
    /\ UNCHANGED notH3Vars

\* doRequest: str.SendRequestHeader(req); lines 272-288.
H3SendRequestHeader ==
    /\ h3req.pc = "sendHeader"
    /\ \/ h3req' = [h3req EXCEPT !.pc = "read"]
       \/ h3req' = [h3req EXCEPT !.pc = "failed", !.err = ErrSendHeader]
    /\ UNCHANGED <<connVars, handshake>>
    /\ UNCHANGED notH3Vars

\* The status codes of the responses read.
StatusCodes == {100, 101, 199, 200}

\* is1xxNonTerminal; lines 302-305.
is1xxNonTerminal(resCode) == (100 <= resCode /\ resCode <= 199) /\ resCode # 101

\* A mutation of tooMany1xx: the limit is hit one response early.
tooMany1xx_OffByOne(num1xx) == num1xx >= max1xxResponses

\* num1xx > max1xxResponses; line 308.
tooMany1xx(num1xx) == num1xx > max1xxResponses

\* doRequest: one str.ReadResponse() of the loop; lines 296-323.
H3ReadResponse ==
    /\ h3req.pc = "read"
    /\ \/ h3req' = [h3req EXCEPT !.pc = "failed", !.err = ErrReadResponse]
       \/ \E resCode \in StatusCodes :
            IF is1xxNonTerminal(resCode)
            THEN \/ h3req' = IF tooMany1xx(h3req.num1xx + 1)
                              THEN [h3req EXCEPT !.pc = "failed", !.err = ErrTooMany1xx,
                                                 !.num1xx = @ + 1]
                              ELSE [h3req EXCEPT !.num1xx = @ + 1]
                 \/ \* trace.Got1xxResponse returns an error
                    /\ ~tooMany1xx(h3req.num1xx + 1)
                    /\ h3req' = [h3req EXCEPT !.pc = "failed", !.err = ErrTrace,
                                               !.num1xx = @ + 1]
            ELSE h3req' = [h3req EXCEPT !.pc = "done", !.rsp = TRUE, !.status = resCode]
    /\ UNCHANGED <<connVars, handshake>>
    /\ UNCHANGED notH3Vars

\* doRequest returned an error: close(reqDone); line 220.
H3CloseReqDone ==
    /\ h3req.pc = "failed"
    /\ h3req' = [h3req EXCEPT !.pc = "awaitWatcher", !.reqDone = TRUE,
                               !.watcher = wake(@, "done"),
                               !.first = IF @ = "" THEN "reqDone" ELSE @]
    /\ UNCHANGED <<connVars, handshake>>
    /\ UNCHANGED notH3Vars

\* <-done, then the error is returned; lines 221-222.
H3AwaitWatcher ==
    /\ h3req.pc = "awaitWatcher"
    /\ h3req.watcher = "done"
    /\ h3req' = H3Return(h3req.err)
    /\ UNCHANGED <<connVars, handshake>>
    /\ UNCHANGED notH3Vars

\* The application is done with the body of the response: reqDone is closed
\* (the shut-down that the comment at lines 204-206 speaks of).
H3BodyDone ==
    /\ h3req.pc = "done"
    /\ h3req.rsp
    /\ ~h3req.reqDone
    /\ h3req' = [h3req EXCEPT !.reqDone = TRUE,
                               !.watcher = wake(@, "done"),
                               !.first = IF @ = "" THEN "reqDone" ELSE @]
    /\ UNCHANGED <<connVars, handshake>>
    /\ UNCHANGED notH3Vars

\* The request's context is cancelled or its deadline passes.
H3ContextDone ==
    /\ ~h3req.ctxDone
    /\ h3req' = [h3req EXCEPT !.ctxDone = TRUE,
                               !.watcher = wake(@, "cancelling"),
                               !.first = IF @ = "" /\ h3req.stream # -1 THEN "ctx" ELSE @]
    /\ UNCHANGED <<connVars, handshake>>
    /\ UNCHANGED notH3Vars

\* The QUIC handshake of an early connection completes.
HandshakeComplete ==
    /\ handshake = "pending"
    /\ handshake' = "complete"
    /\ UNCHANGED <<connVars, h3req>>
    /\ UNCHANGED notH3Vars

H3RoundTripNext ==
    \/ H3RoundTrip
    \/ H3AwaitHandshake
    \/ H3AwaitSettings
    \/ H3OpenRequestStream
    \/ H3CancelWatcher
    \/ H3CancelStream
    \/ H3SendRequestHeader
    \/ H3ReadResponse
    \/ H3CloseReqDone
    \/ H3AwaitWatcher
    \/ H3BodyDone
    \/ H3ContextDone
    \/ HandshakeComplete
    \/ ConnectionLost
    \* the peer opens one unidirectional stream
    \/ AcceptUniStream(1)
    \/ UniStreamType(1)
    \/ UniStreamClose(1)
    \/ ControlStreamParse(1)
    \/ ControlStreamStore(1)
    \/ ControlStreamReady(1)

\* A connection at rest, for the specifications of the other subsystems.
ClientConfigs == {c \in Configs : c.perspective = "client" /\ c.idleTimeout = 0}
H3Parked ==
    ConnInit({c \in ClientConfigs : ~c.enableDatagrams /\ ~c.supportsDatagrams}, {"none"})

(***************************************************************************)
(* Digest authentication (src/digest.go)                                   *)
(*                                                                         *)
(* A string is a sequence of tokens, the empty string is <<>>.  A hash is  *)
(* kept symbolic: the hex digest of data under a hash constructor is the   *)
(* data wrapped in the constructor's name, so that two digests are equal   *)
(* exactly when constructor and data are.                                  *)
(***************************************************************************)
RECURSIVE Join(_, _)
\* strings.Join(parts, sep)
Join(parts, sep) ==
    IF parts = <<>> THEN <<>>
    ELSE IF Len(parts) = 1 THEN parts[1]
    ELSE parts[1] \o sep \o Join(Tail(parts), sep)

\* fmt.Sprintf("%s:%s", ...), fmt.Sprintf("%s:%s:%s", ...), ...
Colon(parts) == Join(parts, <<":">>)

RECURSIVE Split(_, _)
\* strings.Split(s, sep) for a separator of one token
Split(s, sep) ==
    IF \E i \in 1..Len(s) : s[i] = sep
    THEN LET i == CHOOSE i \in 1..Len(s) :
                      s[i] = sep /\ \A j \in 1..(i - 1) : s[j] # sep
         IN <<SubSeq(s, 1, i - 1)>> \o Split(SubSeq(s, i + 1, Len(s)), sep)
    ELSE <<s>>

\* strings.HasSuffix(s, suffix) for a suffix of one token
HasSuffix(s, suffix) == Len(s) > 0 /\ s[Len(s)] = suffix

HexChars == <<"0", "1", "2", "3", "4", "5", "6", "7", "8", "9",
              "a", "b", "c", "d", "e", "f">>

RECURSIVE Hex(_)
\* fmt.Sprintf("%x", n)
Hex(n) ==
    IF n < 16 THEN <<HexChars[n + 1]>>
    ELSE Hex(n \div 16) \o <<HexChars[(n % 16) + 1]>>

\* fmt.Sprintf("%08x", n): at least eight digits, padded with zeros
Fmt08x(n) ==
    LET d == Hex(n)
    IN IF Len(d) >= 8 THEN d ELSE [i \in 1..(8 - Len(d)) |-> "0"] \o d

NoError == "nil"
errDigestBadChallenge == "digest: challenge is bad"
errDigestCharset == "digest: unsupported charset"
errDigestAlgNotSupported == "digest: algorithm is not supported"
errDigestQopNotSupported == "digest: no supported qop in list"
ErrRandRead == "rand.Reader: read failed"

\* The hash constructor registered for each algorithm name.
hashFuncs ==
    (<<>> :> "md5.New")
    @@ (<<"MD5">> :> "md5.New")
    @@ (<<"MD5", "-sess">> :> "md5.New")
    @@ (<<"SHA-256">> :> "sha256.New")
    @@ (<<"SHA-256", "-sess">> :> "sha256.New")
    @@ (<<"SHA-512-256">> :> "sha512.New")
    @@ (<<"SHA-512-256", "-sess">> :> "sha512.New")

\* The hex digest of data under the hash built by constructor ctor.
HexDigest(ctor, data) == <<"hex", ctor, "(">> \o data \o <<")">>

\* credentials.h
h(c, data) == HexDigest(hashFuncs[c.algorithm], data)

\* credentials.kd
kd(c, secret, data) == h(c, Colon(<<secret, data>>))

ha1_NoSession(c) == h(c, Colon(<<c.username, c.realm, c.password>>))

\* credentials.ha1
ha1(c) ==
    LET ret == h(c, Colon(<<c.username, c.realm, c.password>>))
    IN IF c.sessionAlg THEN h(c, Colon(<<ret, c.nonce, c.cNonce>>)) ELSE ret

\* credentials.ha2
ha2(c) == h(c, Colon(<<c.method, c.digestURI>>))

\* credentials.validateQop
validateQop(c) ==
    IF c.messageQop = <<>> THEN NoError
    ELSE LET possibleQops == Split(c.messageQop, ", ")
         IN IF \E i \in 1..Len(possibleQops) : possibleQops[i] = <<"auth">>
            THEN NoError
            ELSE errDigestQopNotSupported

\* What io.ReadFull(rand.Reader, b) gives: an error, or 16 bytes whose hex
\* form is the client nonce.
CNonces == {<<"c1">>, <<"c2">>}
RandReads == [ok : {TRUE}, cnonce : CNonces] \cup {[ok |-> FALSE, cnonce |-> <<>>]}

resp_NoIncrement(c, rnd) ==
    IF ~rnd.ok THEN [cred |-> c, resp |-> <<>>, err |-> ErrRandRead]
    ELSE LET c2 == [c EXCEPT !.cNonce = rnd.cnonce]
         IN [cred |-> c2,
             resp |-> IF Len(c2.messageQop) = 0
                      THEN h(c2, Colon(<<ha1(c2), c2.nonce, ha2(c2)>>))
                      ELSE kd(c2, ha1(c2), Colon(<<c2.nonce, Fmt08x(c2.nc), c2.cNonce,
                                                   c2.messageQop, ha2(c2)>>)),
             err |-> NoError]

\* credentials.resp: the credentials after the call, the digest, the error
resp(c, rnd) ==
    LET c1 == [c EXCEPT !.nc = c.nc + 1]
    IN IF ~rnd.ok THEN [cred |-> c1, resp |-> <<>>, err |-> ErrRandRead]
       ELSE LET c2 == [c1 EXCEPT !.cNonce = rnd.cnonce]
            IN [cred |-> c2,
                resp |-> IF Len(c2.messageQop) = 0
                         THEN h(c2, Colon(<<ha1(c2), c2.nonce, ha2(c2)>>))
                         ELSE kd(c2, ha1(c2), Colon(<<c2.nonce, Fmt08x(c2.nc), c2.cNonce,
                                                      c2.messageQop, ha2(c2)>>)),
                err |-> NoError]

\* One field of the Authorization header.
Field(k, v) == [k |-> k, v |-> v]
HasField(hdr, k) == \E i \in 1..Len(hdr) : hdr[i].k = k
GetField(hdr, k) == hdr[CHOOSE i \in 1..Len(hdr) : hdr[i].k = k].v

\* credentials.authorize: the credentials after the call, the fields of the
\* Authorization header in the order they are written, the error
authorize(c, rnd) ==
    IF c.algorithm \notin DOMAIN hashFuncs
    THEN [cred |-> c, auth |-> <<>>, err |-> errDigestAlgNotSupported]
    ELSE IF validateQop(c) # NoError
    THEN [cred |-> c, auth |-> <<>>, err |-> validateQop(c)]
    ELSE LET r == resp(c, rnd)
         IN IF r.err # NoError
            THEN [cred |-> r.cred, auth |-> <<>>, err |-> r.err]
            ELSE LET c1 == r.cred
                     c2 == IF c1.userhash = <<"true">>
                           THEN [c1 EXCEPT
                                   !.username = h(c1, Colon(<<c1.username, c1.realm>>))]
                           ELSE c1
                 IN [cred |-> c2,
                     auth |-> (IF c1.userhash = <<"true">>
                               THEN <<Field("userhash", c1.userhash)>> ELSE <<>>)
                              \o <<Field("username", c2.username),
                                   Field("realm", c2.realm),
                                   Field("nonce", c2.nonce),
                                   Field("uri", c2.digestURI),
                                   Field("response", r.resp),
                                   Field("algorithm", c2.algorithm)>>
                              \o (IF c2.opaque # <<>>
                                  THEN <<Field("opaque", c2.opaque)>> ELSE <<>>)
                              \o (IF c2.messageQop # <<>>
                                  THEN <<Field("qop", c2.messageQop),
                                         Field("nc", Fmt08x(c2.nc)),
                                         Field("cnonce", c2.cNonce)>>
                                  ELSE <<>>),
                     err |-> NoError]

\* The challenge struct with its zero value.
NoChallenge ==
    [realm |-> <<>>, domain |-> <<>>, nonce |-> <<>>, opaque |-> <<>>, stale |-> <<>>,
     algorithm |-> <<>>, qop |-> <<>>, userhash |-> <<>>]

newCredentials(digestURI, method, username, password, c) ==
    [username |-> username, userhash |-> c.userhash, realm |-> c.realm,
     nonce |-> c.nonce, digestURI |-> digestURI, algorithm |-> c.algorithm,
     sessionAlg |-> HasSuffix(c.algorithm, "-sess"), cNonce |-> <<>>,
     opaque |-> c.opaque, messageQop |-> c.qop, nc |-> 0, method |-> method,
     password |-> password]

\* The inputs of the credentials under check.
Username == <<"user">>
Password == <<"secret">>
RequestURI == <<"/dir/index.html">>
Method == <<"GET">>
Algorithms == DOMAIN hashFuncs \cup {<<"SHA-1">>, <<"md5">>}
Qops == {<<>>, <<"auth">>, <<"auth-int">>, <<"auth", ", ", "auth-int">>,
         <<"auth-int", ", ", "auth">>, <<"auth,auth-int">>}
Userhashes == {<<>>, <<"true">>, <<"false">>}
Challenges ==
    {[NoChallenge EXCEPT !.realm = <<"realm">>, !.nonce = <<"nonce">>, !.opaque = o,
                         !.algorithm = a, !.qop = q, !.userhash = u] :
        o \in {<<>>, <<"opaque">>}, a \in Algorithms, q \in Qops, u \in Userhashes}

\* No credentials, no authorize call.
DigestParked ==
    /\ cr = newCredentials(RequestURI, Method, Username, Password, NoChallenge)
    /\ authLog = <<>>

DigestInit ==
    /\ cr \in {newCredentials(RequestURI, Method, Username, Password, c) :
                  c \in Challenges}
    /\ authLog = <<>>

\* One call of cr.authorize().  authLog keeps, per call, the username and
\* the call's outcome: header fields, error, and the client nonce drawn.
Authorize ==
    /\ Len(authLog) < MaxAuthorize
    /\ \E rnd \in RandReads :
          LET r == authorize(cr, rnd)
          IN /\ cr' = r.cred
             /\ authLog' = Append(authLog, [username |-> cr.username, auth |-> r.auth,
                                            err |-> r.err, cNonce |-> r.cred.cNonce])
    /\ UNCHANGED dmw
    /\ UNCHANGED notDigestVars

DigestNext == Authorize

\* ---- parseChallenge ----
Whitespace == {" ", "\n", "\r", "\t"}
Quote == {"\""}

RECURSIVE TrimLeft(_, _)
TrimLeft(s, cutset) ==
    IF s # <<>> /\ s[1] \in cutset THEN TrimLeft(Tail(s), cutset) ELSE s

RECURSIVE TrimRight(_, _)
TrimRight(s, cutset) ==
    IF s # <<>> /\ s[Len(s)] \in cutset
    THEN TrimRight(SubSeq(s, 1, Len(s) - 1), cutset) ELSE s

\* strings.Trim(s, cutset); strings.TrimSpace(s) is Trim(s, Whitespace)
Trim(s, cutset) == TrimRight(TrimLeft(s, cutset), cutset)

\* strings.SplitN(s, "=", 2)
SplitN2(s) ==
    IF \E i \in 1..Len(s) : s[i] = "="
    THEN LET i == CHOOSE i \in 1..Len(s) :
                      s[i] = "=" /\ \A j \in 1..(i - 1) : s[j] # "="
         IN <<SubSeq(s, 1, i - 1), SubSeq(s, i + 1, Len(s))>>
    ELSE <<s>>

\* strings.ToUpper(s), on the tokens that occur
ToUpper(s) == [i \in DOMAIN s |-> IF s[i] = "utf-8" THEN "UTF-8" ELSE s[i]]

RECURSIVE parseDirectives(_, _)
\* The loop of parseChallenge over the comma-separated parts sl, from the
\* challenge c built so far.
parseDirectives(sl, c) ==
    IF sl = <<>> THEN [c |-> c, err |-> NoError]
    ELSE LET r == SplitN2(Trim(sl[1], Whitespace))
         IN IF Len(r) # 2 THEN [c |-> NoChallenge, err |-> errDigestBadChallenge]
            ELSE LET v == Trim(r[2], Quote)
                 IN CASE r[1] = <<"realm">> ->
                           parseDirectives(Tail(sl), [c EXCEPT !.realm = v])
                      [] r[1] = <<"domain">> ->
                           parseDirectives(Tail(sl), [c EXCEPT !.domain = v])
                      [] r[1] = <<"nonce">> ->
                           parseDirectives(Tail(sl), [c EXCEPT !.nonce = v])
                      [] r[1] = <<"opaque">> ->
                           parseDirectives(Tail(sl), [c EXCEPT !.opaque = v])
                      [] r[1] = <<"stale">> ->
                           parseDirectives(Tail(sl), [c EXCEPT !.stale = v])
                      [] r[1] = <<"algorithm">> ->
                           parseDirectives(Tail(sl), [c EXCEPT !.algorithm = v])
                      [] r[1] = <<"qop">> ->
                           parseDirectives(Tail(sl), [c EXCEPT !.qop = v])
                      [] r[1] = <<"charset">> ->
                           IF ToUpper(v) # <<"UTF-8">>
                           THEN [c |-> NoChallenge, err |-> errDigestCharset]
                           ELSE parseDirectives(Tail(sl), c)
                      [] r[1] = <<"userhash">> ->
                           parseDirectives(Tail(sl), [c EXCEPT !.userhash = v])
                      [] OTHER -> [c |-> NoChallenge, err |-> errDigestBadChallenge]

parseChallenge_AnyCharset(input) ==
    LET s == Trim(input, Whitespace)
    IN IF ~(s # <<>> /\ s[1] = "Digest ")
       THEN [c |-> NoChallenge, err |-> errDigestBadChallenge]
       ELSE LET r == parseDirectives(Split(Trim(Tail(s), Whitespace), ","), NoChallenge)
                sl == Split(Trim(Tail(s), Whitespace), ",")
            IN IF r.err = errDigestCharset
               THEN parseDirectives(
                        SelectSeq(sl, LAMBDA p :
                            SplitN2(Trim(p, Whitespace))[1] # <<"charset">>),
                        NoChallenge)
               ELSE r

\* parseChallenge: the challenge and the error.  "Digest " is one token.
parseChallenge(input) ==
    LET s == Trim(input, Whitespace)
    IN IF ~(s # <<>> /\ s[1] = "Digest ")
       THEN [c |-> NoChallenge, err |-> errDigestBadChallenge]
       ELSE parseDirectives(Split(Trim(Tail(s), Whitespace), ","), NoChallenge)

\* createDigestAuth: the header fields and the error; called tells whether
\* authorize was reached, cred is the credentials object after it.
createDigestAuth(chal, username, password, rnd) ==
    LET none == newCredentials(RequestURI, Method, username, password, NoChallenge)
    IN IF chal = <<>>
       THEN [auth |-> <<>>, err |-> errDigestBadChallenge, called |-> FALSE, cred |-> none]
       ELSE LET p == parseChallenge(chal)
            IN IF p.err # NoError
               THEN [auth |-> <<>>, err |-> p.err, called |-> FALSE, cred |-> none]
               ELSE LET a == authorize(newCredentials(RequestURI, Method, username,
                                                      password, p.c), rnd)
                    IN [auth |-> a.auth, err |-> a.err, called |-> TRUE, cred |-> a.cred]

\* ---- handleDigestAuthFunc ----
StatusUnauthorized == 401
ErrTransport == "transport error"
ErrParseRequestBody == "parseRequestBody error"
ErrGetBody == "GetBody error"

\* The first test of the middleware: does this response ask for credentials?
unauthorized(respErr, statusCode) ==
    ~(respErr # NoError \/ statusCode # StatusUnauthorized)

\* The directives a WWW-Authenticate value is made of.
Directives ==
    {<<" ", "opaque", "=", "\"", "opaque", "\"">>,
     <<"stale", "=", "false">>,
     <<" ", "qop", "=", "\"", "auth", "\"">>,
     <<"qop", "=", "auth-int">>,
     <<" ", "qop", "=", "\"", "auth", ",", " ", "auth-int", "\"">>,
     <<" ", "algorithm", "=", "SHA-256", "-sess">>,
     <<"algorithm", "=", "SHA-1">>,
     <<"charset", "=", "UTF-8">>,
     <<" ", "charset", "=", "\"", "utf-8", "\"">>,
     <<"charset", "=", "ISO-8859-1">>,
     <<"userhash", "=", "true">>,
     <<"Realm", "=", "\"", "realm", "\"">>,
     <<"token68">>}

RECURSIVE DirectiveLists(_)
DirectiveLists(n) ==
    IF n = 0 THEN {<<>>}
    ELSE DirectiveLists(n - 1)
         \cup {Append(l, d) : l \in {x \in DirectiveLists(n - 1) : Len(x) = n - 1},
                              d \in Directives}

RealmAndNonce ==
    <<<<"realm", "=", "\"", "realm", "\"">>, <<" ", "nonce", "=", "\"", "nonce", "\"">>>>

\* The WWW-Authenticate values: none, or a scheme and a list of directives,
\* with or without realm and nonce in front.
WwwAuthenticate ==
    {<<>>}
    \cup {<<scheme>> \o Join(front \o l, <<",">>) :
            scheme \in {"Digest ", "Basic ", "digest "},
            front \in {<<>>, RealmAndNonce},
            l \in DirectiveLists(MaxDirectives)}
    \cup {<<" ", "Digest ", "realm", "=", "\"", "realm", "\"", "\n">>}

\* The body of the request: none, bytes without GetBody, or with GetBody.
Bodies == {"nil", "noGetBody", "getBody"}

\* What the request sent again comes back with.
Resends == {[err |-> NoError, status |-> 200], [err |-> NoError, status |-> 401],
            [err |-> ErrTransport, status |-> 0]}

\* No response under way.
DigestAuthParked ==
    dmw = [pc |-> "idle", err |-> NoError, status |-> 0, chal |-> <<>>, body |-> "nil",
           sent |-> 0, response |-> "prior", resent |-> 0, ret |-> NoError,
           respErr |-> NoError, auth |-> <<>>, failed |-> ""]

\* Client.roundTrip has a response (or an error) and is about to call the
\* middleware installed by SetCommonDigestAuth.
DigestAuthInit ==
    dmw \in [pc : {"response"}, err : {NoError}, status : {200, 401, 407},
             chal : WwwAuthenticate, body : Bodies, sent : {0}, response : {"prior"},
             resent : {0}, ret : {NoError}, respErr : {NoError}, auth : {<<>>},
             failed : {""}]
            \cup [pc : {"response"}, err : {ErrTransport}, status : {0},
                  chal : {<<>>}, body : Bodies, sent : {0}, response : {"none"},
                  resent : {0}, ret : {NoError}, respErr : {ErrTransport},
                  auth : {<<>>}, failed : {""}]

\* The middleware returns e without having sent anything.
DigestAuthReturn(e, why) ==
    dmw' = [dmw EXCEPT !.pc = "returned", !.ret = e, !.failed = why]

\* The middleware returned by handleDigestAuthFunc, from call to return.
\* err and status are resp.Err and resp.StatusCode at the call; sent counts
\* the requests the middleware hands to the transport; response tells what
\* resp.Response points to: the prior response (none after a transport
\* error), the re-sent request's, or nil; resent is the status of the
\* re-sent request's response; ret is the error the middleware returns.
HandleDigestAuth ==
    /\ dmw.pc = "response"
    /\ IF ~unauthorized(dmw.err, dmw.status)
       THEN DigestAuthReturn(NoError, "") /\ UNCHANGED <<cr, authLog>>
       ELSE \E rnd \in RandReads :
              LET a == createDigestAuth(dmw.chal, Username, Password, rnd)
              IN /\ IF a.called
                    THEN /\ cr' = a.cred
                         /\ authLog' = <<[username |-> Username, auth |-> a.auth,
                                          err |-> a.err, cNonce |-> a.cred.cNonce]>>
                    ELSE UNCHANGED <<cr, authLog>>
                 /\ IF a.err # NoError
                    THEN DigestAuthReturn(a.err, "createDigestAuth")
                    ELSE \E prb \in {NoError, ErrParseRequestBody},
                            gb \in {NoError, ErrGetBody}, res \in Resends :
                           IF dmw.body # "nil" /\ prb # NoError
                           THEN DigestAuthReturn(prb, "parseRequestBody")
                           ELSE IF dmw.body = "getBody" /\ gb # NoError
                           THEN DigestAuthReturn(gb, "GetBody")
                           ELSE dmw' = [dmw EXCEPT
                                          !.pc = "returned",
                                          !.auth = a.auth,
                                          !.sent = dmw.sent + 1,
                                          !.response = IF res.err = NoError
                                                       THEN "resent" ELSE "nil",
                                          !.resent = res.status,
                                          !.ret = res.err]
    /\ UNCHANGED notDigestVars

\* The loop of Client.roundTrip binds the middleware's error to resp.Err and
\* goes on to the next middleware.
DigestAuthBindErr ==
    /\ dmw.pc = "returned"
    /\ dmw' = [dmw EXCEPT !.pc = "done",
                          !.respErr = IF dmw.ret # NoError THEN dmw.ret ELSE dmw.respErr]
    /\ UNCHANGED <<cr, authLog>>
    /\ UNCHANGED notDigestVars

DigestAuthNext == HandleDigestAuth \/ DigestAuthBindErr

(***************************************************************************)
(* JA3 (src/client.go, SetJa3WithStr and createTlsVersion)                 *)
(***************************************************************************)
\* The TLS version numbers of utls, and its GREASE placeholder.
VersionTLS10 == 769
VersionTLS11 == 770
VersionTLS12 == 771
VersionTLS13 == 772
GREASE_PLACEHOLDER == 2570
MaxUint16 == 65535

ErrJa3Version == "ja3Str tls version error"

\* createTlsVersion: tlsMaxVersion, tlsMinVersion, the versions of the
\* supported-versions extension, and the error
createTlsVersion(ver) ==
    CASE ver = VersionTLS13 ->
           [max |-> VersionTLS13, min |-> VersionTLS12,
            versions |-> <<GREASE_PLACEHOLDER, VersionTLS13, VersionTLS12>>,
            err |-> NoError]
      [] ver = VersionTLS12 ->
           [max |-> VersionTLS12, min |-> VersionTLS11,
            versions |-> <<GREASE_PLACEHOLDER, VersionTLS12, VersionTLS11>>,
            err |-> NoError]
      [] ver = VersionTLS11 ->
           [max |-> VersionTLS11, min |-> VersionTLS10,
            versions |-> <<GREASE_PLACEHOLDER, VersionTLS11, VersionTLS10>>,
            err |-> NoError]
      [] OTHER -> [max |-> 0, min |-> 0, versions |-> <<>>, err |-> ErrJa3Version]

DecimalDigits == <<"0", "1", "2", "3", "4", "5", "6", "7", "8", "9">>
IsDigit(ch) == \E d \in 1..10 : DecimalDigits[d] = ch

RECURSIVE DecimalValue(_)
\* The number a string of decimal digits denotes, cut off above 16 bits.
DecimalValue(s) ==
    IF s = <<>> THEN 0
    ELSE LET v == 10 * DecimalValue(SubSeq(s, 1, Len(s) - 1))
                  + (CHOOSE d \in 0..9 : DecimalDigits[d + 1] = s[Len(s)])
         IN IF v > MaxUint16 THEN MaxUint16 + 1 ELSE v

\* strconv.ParseUint(s, 10, 16): a syntax error for an empty string or a
\* character that is no digit, a range error above 65535
ParseUint16(s) ==
    IF s = <<>> \/ \E i \in 1..Len(s) : ~IsDigit(s[i])
    THEN [n |-> 0, err |-> "invalid syntax"]
    ELSE IF DecimalValue(s) > MaxUint16
    THEN [n |-> MaxUint16, err |-> "value out of range"]
    ELSE [n |-> DecimalValue(s), err |-> NoError]

\* The characters of a version token, and the tokens tried.
VersionChars == {"0", "1", "2", "3", "6", "7", "9", "x"}
RECURSIVE VersionTokensOf(_)
VersionTokensOf(n) ==
    IF n = 0 THEN {<<>>}
    ELSE VersionTokensOf(n - 1)
         \cup {Append(t, ch) : t \in {x \in VersionTokensOf(n - 1) : Len(x) = n - 1},
                               ch \in VersionChars}
VersionTokens ==
    VersionTokensOf(MaxVersionDigits)
    \cup {<<"0", "7", "7", "1">>, <<"6", "5", "5", "3", "6">>, <<"6", "6", "3", "0", "7">>}

MaxUint8 == 255

\* strconv.ParseUint(s, 10, 8)
ParseUint8(s) ==
    IF s = <<>> \/ \E i \in 1..Len(s) : ~IsDigit(s[i])
    THEN [n |-> 0, err |-> "invalid syntax"]
    ELSE IF DecimalValue(s) > MaxUint8
    THEN [n |-> MaxUint8, err |-> "value out of range"]
    ELSE [n |-> DecimalValue(s), err |-> NoError]

ErrJa3Ciphers == "ja3Str cipherSuites error"
ErrJa3Curves == "ja3Str curves error"
ErrJa3Points == "ja3Str point error"
ErrJa3Extension == "ja3Str extension error,utls not support: "

\* The loop of createCiphers and of createCurves over the parsed values: the
\* GREASE placeholder goes in front when the first value is another one.
greaseFirst_Always(vals) == <<GREASE_PLACEHOLDER>> \o vals
greaseFirst(vals) ==
    IF Len(vals) > 0 /\ vals[1] # GREASE_PLACEHOLDER
    THEN <<GREASE_PLACEHOLDER>> \o vals
    ELSE vals

\* createCiphers: the cipher suites and the error
createCiphers(ciphers) ==
    IF \E i \in 1..Len(ciphers) : ParseUint16(ciphers[i]).err # NoError
    THEN [out |-> <<>>, err |-> ErrJa3Ciphers]
    ELSE [out |-> greaseFirst([i \in 1..Len(ciphers) |-> ParseUint16(ciphers[i]).n]),
          err |-> NoError]

\* createCurves: the curves of the SupportedCurvesExtension and the error
createCurves(curves) ==
    IF \E i \in 1..Len(curves) : ParseUint16(curves[i]).err # NoError
    THEN [out |-> <<>>, err |-> ErrJa3Curves]
    ELSE [out |-> greaseFirst([i \in 1..Len(curves) |-> ParseUint16(curves[i]).n]),
          err |-> NoError]

createPointFormats_16Bits(points) ==
    IF \E i \in 1..Len(points) : ParseUint16(points[i]).err # NoError
    THEN [out |-> <<>>, err |-> ErrJa3Points]
    ELSE [out |-> [i \in 1..Len(points) |-> ParseUint16(points[i]).n], err |-> NoError]

\* createPointFormats: the points of the SupportedPointsExtension and the error
createPointFormats(points) ==
    IF \E i \in 1..Len(points) : ParseUint8(points[i]).err # NoError
    THEN [out |-> <<>>, err |-> ErrJa3Points]
    ELSE [out |-> [i \in 1..Len(points) |-> ParseUint8(points[i]).n], err |-> NoError]

\* The extension IDs createExtension has a case for.
TypedExtensionIds ==
    {0, 5, 10, 11, 13, 16, 17, 18, 21, 23, 24, 27, 28, 34, 35, 41, 43, 44, 45, 50, 51, 57,
     13172, 17513, 30031, 30032, 65037, 65281}

\* An extension object: the Go type it has and the extension ID it carries.
\* "typed" is the utls type createExtension makes for an ID it has a case for.
\* An extension of a type with an ID; data is what a supported-versions,
\* supported-curves or supported-points extension lists, "default" for one
\* made without a JA3 value.
Extension(type, id) == [type |-> type, id |-> id, data |-> "default"]
UtlsGREASEExtension == Extension("UtlsGREASEExtension", GREASE_PLACEHOLDER)
NilExtension == Extension("nil", 0)

\* createExtension(extensionId) without options
createExtension(extensionId) ==
    IF extensionId \in TypedExtensionIds THEN Extension("typed", extensionId)
    ELSE NilExtension

\* The extensions made ahead from the version, the curves and the points.
SupportedVersionsExtension(versions) ==
    [Extension("SupportedVersionsExtension", 43) EXCEPT !.data = versions]
SupportedCurvesExtension(curves) ==
    [Extension("SupportedCurvesExtension", 10) EXCEPT !.data = curves]
SupportedPointsExtension(points) ==
    [Extension("SupportedPointsExtension", 11) EXCEPT !.data = points]

extensionFor_Defaults(extensionId, tlsExtension, curvesExtension, pointExtension) ==
    IF createExtension(extensionId) = NilExtension
    THEN Extension("GenericExtension", extensionId)
    ELSE createExtension(extensionId)

\* The switch of createExtensions: the extension standing for one ID.
extensionFor(extensionId, tlsExtension, curvesExtension, pointExtension) ==
    CASE extensionId = 10 -> curvesExtension
      [] extensionId = 11 -> pointExtension
      [] extensionId = 43 -> tlsExtension
      [] OTHER -> IF createExtension(extensionId) = NilExtension
                  THEN Extension("GenericExtension", extensionId)
                  ELSE createExtension(extensionId)

\* ext.(*utls.UtlsGREASEExtension)
isUtlsGREASE(ext) == ext.type = "UtlsGREASEExtension"

\* createExtensions: the extension list and the error
createExtensions(extensions, tlsExtension, curvesExtension, pointExtension) ==
    IF \E i \in 1..Len(extensions) : ParseUint16(extensions[i]).err # NoError
    THEN [out |-> <<>>, err |-> ErrJa3Extension]
    ELSE LET exts == [i \in 1..Len(extensions) |->
                         extensionFor(ParseUint16(extensions[i]).n, tlsExtension,
                                      curvesExtension, pointExtension)]
             front == IF Len(exts) > 0 /\ ~isUtlsGREASE(exts[1])
                      THEN <<UtlsGREASEExtension>> \o exts ELSE exts
         IN [out |-> IF Len(front) > 0 /\ ~isUtlsGREASE(front[Len(front)])
                     THEN Append(front, UtlsGREASEExtension) ELSE front,
             err |-> NoError]

\* The tokens of the '-'-separated lists of a JA3 string.
ListTokens ==
    {<<"2", "5", "7", "0">>, <<"4", "8", "6", "5">>, <<"1", "0">>, <<"4", "3">>,
     <<"0">>, <<"2", "5", "6">>, <<"6", "5", "5", "3", "6">>, <<"x">>, <<>>}
RECURSIVE TokenListsOf(_)
TokenListsOf(n) ==
    IF n = 1 THEN {<<t>> : t \in ListTokens}
    ELSE TokenListsOf(n - 1)
         \cup {Append(l, t) : l \in {x \in TokenListsOf(n - 1) : Len(x) = n - 1},
                              t \in ListTokens}
\* strings.Split gives at least one token.
TokenLists == TokenListsOf(MaxListTokens)

\* No list is being built.
Ja3ListParked ==
    lst = [pc |-> "idle", fn |-> "", in |-> <<>>, out |-> <<>>, err |-> NoError]

\* One of the four list builders is called with a list of tokens.
Ja3ListInit ==
    lst \in [pc : {"call"},
             fn : {"createCiphers", "createCurves", "createPointFormats",
                   "createExtensions"},
             in : TokenLists, out : {<<>>}, err : {NoError}]

ListReturn(r) == lst' = [lst EXCEPT !.pc = "done", !.out = r.out, !.err = r.err]

CreateCiphers ==
    /\ lst.pc = "call" /\ lst.fn = "createCiphers"
    /\ ListReturn(createCiphers(lst.in))
    /\ UNCHANGED <<ja3, notJa3Vars>>

CreateCurves ==
    /\ lst.pc = "call" /\ lst.fn = "createCurves"
    /\ ListReturn(createCurves(lst.in))
    /\ UNCHANGED <<ja3, notJa3Vars>>

CreatePointFormats ==
    /\ lst.pc = "call" /\ lst.fn = "createPointFormats"
    /\ ListReturn(createPointFormats(lst.in))
    /\ UNCHANGED <<ja3, notJa3Vars>>

CreateExtensions ==
    /\ lst.pc = "call" /\ lst.fn = "createExtensions"
    /\ ListReturn(createExtensions(lst.in,
                                   SupportedVersionsExtension(<<VersionTLS13>>),
                                   SupportedCurvesExtension(<<GREASE_PLACEHOLDER>>),
                                   SupportedPointsExtension(<<0>>)))
    /\ UNCHANGED <<ja3, notJa3Vars>>

Ja3ListNext == CreateCiphers \/ CreateCurves \/ CreatePointFormats \/ CreateExtensions

\* The lists tried with every version token, and those tried with 771.
GoodList == <<<<"4", "8", "6", "5">>, <<"1", "0">>>>
GoodPoints == <<<<"0">>>>
BadLists == {<<<<"4", "8", "6", "5">>, <<"x">>>>, <<<<"6", "5", "5", "3", "6">>>>,
             <<<<"2", "5", "6">>>>}

\* Extension lists with the IDs 10, 11 and 43 at every position.
PrebuiltIds == {<<"1", "0">>, <<"1", "1">>, <<"4", "3">>, <<"0">>}
PrebuiltLists ==
    {<<x>> : x \in PrebuiltIds} \cup {<<x, y>> : x, y \in PrebuiltIds}
    \cup {<<x, y, z>> : x, y, z \in PrebuiltIds}

\* No JA3 string was given.
Ja3Parked ==
    /\ ja3 = [pc |-> "idle", version |-> <<>>, tokens |-> 5, ciphers |-> <<>>,
              extensions |-> <<>>, curves |-> <<>>, points |-> <<>>,
              applied |-> FALSE, max |-> 0, min |-> 0, versions |-> <<>>,
              cipherSuites |-> <<>>, exts |-> <<>>]
    /\ Ja3ListParked

\* SetJa3WithStr is called with a string of so many comma-separated tokens:
\* the version and the four lists.
Ja3Init ==
    /\ ja3 \in [pc : {"call"}, version : VersionTokens, tokens : {4, 5, 6},
                ciphers : {GoodList}, extensions : {GoodList}, curves : {GoodList},
                points : {GoodPoints, <<<<"2", "5", "6">>>>},
                applied : {FALSE}, max : {0}, min : {0}, versions : {<<>>},
                cipherSuites : {<<>>}, exts : {<<>>}]
               \cup [pc : {"call"}, version : {<<"7", "7", "1">>}, tokens : {5},
                     ciphers : {GoodList} \cup BadLists,
                     extensions : {GoodList} \cup BadLists,
                     curves : {GoodList} \cup BadLists,
                     points : {GoodPoints} \cup BadLists,
                     applied : {FALSE}, max : {0}, min : {0}, versions : {<<>>},
                     cipherSuites : {<<>>}, exts : {<<>>}]
               \cup [pc : {"call"},
                     version : {<<"7", "7", "0">>, <<"7", "7", "1">>, <<"7", "7", "2">>},
                     tokens : {5}, ciphers : {GoodList}, extensions : PrebuiltLists,
                     curves : {GoodList, <<<<"2", "5", "7", "0">>, <<"2", "9">>>>},
                     points : {GoodPoints, <<<<"0">>, <<"1">>>>},
                     applied : {FALSE}, max : {0}, min : {0}, versions : {<<>>},
                     cipherSuites : {<<>>}, exts : {<<>>}]
    /\ Ja3ListParked

\* Client.SetJa3WithStr, from call to return: applied tells whether
\* SetTLSFingerprintRaw was called, with which TLSVersMax and TLSVersMin,
\* which supported-versions extension ready to stand for extension 43, which
\* cipher suites and which extensions.
SetJa3WithStr ==
    /\ ja3.pc = "call"
    /\ LET ver == ParseUint16(ja3.version)
           tls == createTlsVersion(ver.n)
           exts == createExtensions(ja3.extensions,
                                    SupportedVersionsExtension(tls.versions),
                                    SupportedCurvesExtension(createCurves(ja3.curves).out),
                                    SupportedPointsExtension(createPointFormats(ja3.points).out))
       IN IF \/ ja3.tokens # 5 \/ ver.err # NoError \/ tls.err # NoError
             \/ createCiphers(ja3.ciphers).err # NoError
             \/ createCurves(ja3.curves).err # NoError
             \/ createPointFormats(ja3.points).err # NoError
             \/ exts.err # NoError
          THEN ja3' = [ja3 EXCEPT !.pc = "done"]
          ELSE ja3' = [ja3 EXCEPT !.pc = "done", !.applied = TRUE, !.max = tls.max,
                                  !.min = tls.min, !.versions = tls.versions,
                                  !.cipherSuites = createCiphers(ja3.ciphers).out,
                                  !.exts = exts.out]
    /\ UNCHANGED <<lst, notJa3Vars>>

Ja3Next == SetJa3WithStr

(***************************************************************************)
(* Akamai HTTP/2 fingerprint (src/client.go, createH2SpecWithStr and       *)
(* SetAkamaiWithStr)                                                       *)
(***************************************************************************)
RECURSIVE Itoa(_)
\* strconv.Itoa for a natural number
Itoa(n) ==
    IF n < 10 THEN <<DecimalDigits[n + 1]>>
    ELSE Itoa(n \div 10) \o <<DecimalDigits[(n % 10) + 1]>>

RECURSIVE Digits(_)
\* The number a string of decimal digits denotes.
Digits(s) ==
    IF s = <<>> THEN 0
    ELSE 10 * Digits(SubSeq(s, 1, Len(s) - 1))
         + (CHOOSE d \in 0..9 : DecimalDigits[d + 1] = s[Len(s)])

\* strconv.Atoi: an optional sign and decimal digits.  (The numbers tried are
\* far inside the range of int.)
Atoi(s) ==
    LET signed == s # <<>> /\ s[1] \in {"+", "-"}
        ds == IF signed THEN Tail(s) ELSE s
    IN IF ds = <<>> \/ \E i \in 1..Len(ds) : ~IsDigit(ds[i])
       THEN [n |-> 0, err |-> "invalid syntax"]
       ELSE [n |-> IF signed /\ s[1] = "-" THEN 0 - Digits(ds) ELSE Digits(ds),
             err |-> NoError]

\* The conversions uint16(n) and uint32(n) of an int; uint32 has Uint32Bits
\* bits here.
Uint16Bits == 16
ToUint16(n) == n % (2^Uint16Bits)
ToUint32(n) == n % (2^Uint32Bits)

ErrH2Format == "h2 spec format error"
ErrH2Setting == "h2 setting error"

RECURSIVE parseSettings(_, _)
\* The loop of createH2SpecWithStr over the settings, each split at ':',
\* from the list acc built so far: InitialSetting and the error
parseSettings(sts, acc) ==
    IF sts = <<>> THEN [out |-> acc, err |-> NoError]
    ELSE LET tts == sts[1]
         IN IF Len(tts) # 2 THEN [out |-> acc, err |-> ErrH2Setting]
            ELSE IF Atoi(tts[1]).err # NoError
            THEN [out |-> acc, err |-> Atoi(tts[1]).err]
            ELSE IF Atoi(tts[2]).err # NoError
            THEN [out |-> acc, err |-> Atoi(tts[2]).err]
            ELSE parseSettings(Tail(sts),
                               Append(acc, [ID |-> ToUint16(Atoi(tts[1]).n),
                                            Val |-> ToUint32(Atoi(tts[2]).n)]))

orderHeader_Swapped(hkey) ==
    CASE hkey = "m" -> <<":authority">>
      [] hkey = "a" -> <<":method">>
      [] hkey = "s" -> <<":scheme">>
      [] hkey = "p" -> <<":path">>
      [] OTHER -> <<>>

\* The switch over one letter of the pseudo-header order: what is appended.
orderHeader(hkey) ==
    CASE hkey = "m" -> <<":method">>
      [] hkey = "a" -> <<":authority">>
      [] hkey = "s" -> <<":scheme">>
      [] hkey = "p" -> <<":path">>
      [] OTHER -> <<>>

RECURSIVE orderHeaders(_)
orderHeaders(hkeys) ==
    IF hkeys = <<>> THEN <<>> ELSE orderHeader(hkeys[1]) \o orderHeaders(Tail(hkeys))

\* createH2SpecWithStr on a string of so many '|'-separated fields, the
\* first split at ',' and ':', the second as it is, the fourth split at ','
createH2SpecWithStr(fields, sts, connFlow, order) ==
    LET none == [InitialSetting |-> <<>>, ConnFlow |-> 0, OrderHeaders |-> <<>>]
    IN IF fields # 4 THEN [spec |-> none, err |-> ErrH2Format]
       ELSE LET st == parseSettings(sts, <<>>)
            IN IF st.err # NoError
               THEN [spec |-> [none EXCEPT !.InitialSetting = st.out], err |-> st.err]
               ELSE IF Atoi(connFlow).err # NoError
               THEN [spec |-> [none EXCEPT !.InitialSetting = st.out],
                     err |-> Atoi(connFlow).err]
               ELSE [spec |-> [InitialSetting |-> st.out,
                               ConnFlow |-> ToUint32(Atoi(connFlow).n),
                               OrderHeaders |-> orderHeaders(order)],
                     err |-> NoError]

\* What the client had before the call.
PriorH2 ==
    [InitialSetting |-> <<[ID |-> 4, Val |-> 7]>>, ConnFlow |-> 9,
     OrderHeaders |-> <<":path">>]

\* The inputs: numbers at and around the ends of the ranges, and what is no
\* number.
IDTokens ==
    {Itoa(1), Itoa(3), Itoa(0), Itoa(2^Uint16Bits - 1), Itoa(2^Uint16Bits),
     Itoa(2^Uint16Bits + 1), <<"-">> \o Itoa(1), <<"x">>, <<>>}
ValTokens ==
    {Itoa(0), Itoa(1), Itoa(2^Uint32Bits - 1), Itoa(2^Uint32Bits),
     Itoa(2^Uint32Bits + 5), <<"-">> \o Itoa(1), <<"1", "0", "0", "x">>}
SettingTokens ==
    {<<k, v>> : k \in IDTokens, v \in ValTokens}
    \cup {<<k>> : k \in IDTokens} \cup {<<Itoa(1), Itoa(2), Itoa(3)>>}
RECURSIVE SettingListsOf(_)
SettingListsOf(n) ==
    IF n = 1 THEN {<<x>> : x \in SettingTokens}
    ELSE SettingListsOf(n - 1)
         \cup {Append(l, x) : l \in {y \in SettingListsOf(n - 1) : Len(y) = n - 1},
                              x \in {<<Itoa(1), Itoa(0)>>, <<Itoa(3), Itoa(1)>>,
                                     <<Itoa(2^Uint16Bits), Itoa(1)>>, <<Itoa(1)>>}}
RECURSIVE OrdersOf(_)
OrdersOf(n) ==
    IF n = 1 THEN {<<x>> : x \in {"m", "a", "s", "p", "x", ""}}
    ELSE OrdersOf(n - 1)
         \cup {Append(l, x) : l \in {y \in OrdersOf(n - 1) : Len(y) = n - 1},
                              x \in {"m", "a", "s", "p", "x"}}
GoodSettings == <<<<Itoa(1), Itoa(2^Uint16Bits)>>, <<Itoa(3), Itoa(0)>>, <<Itoa(1), Itoa(1)>>>>
GoodOrder == <<"m", "a", "s", "p">>

\* SetAkamaiWithStr has not been called.
AkamaiParked ==
    ak = [pc |-> "idle", fields |-> 4, settings |-> <<>>, connFlow |-> <<>>,
          order |-> <<>>, err |-> NoError, h2 |-> PriorH2]

\* SetAkamaiWithStr is called with a string in which one part varies.
AkamaiInit ==
    ak \in [pc : {"call"}, fields : {4}, settings : SettingListsOf(MaxSettings),
            connFlow : {Itoa(5)}, order : {GoodOrder}, err : {NoError}, h2 : {PriorH2}]
           \cup [pc : {"call"}, fields : {3, 4, 5}, settings : {GoodSettings},
                 connFlow : ValTokens, order : {GoodOrder}, err : {NoError},
                 h2 : {PriorH2}]
           \cup [pc : {"call"}, fields : {4}, settings : {GoodSettings},
                 connFlow : {Itoa(5)}, order : OrdersOf(MaxOrder), err : {NoError},
                 h2 : {PriorH2}]

\* Client.SetAkamaiWithStr, from call to return: h2 is what the client's
\* transport has as SETTINGS, connection flow and pseudo-header order.
SetAkamaiWithStr ==
    /\ ak.pc = "call"
    /\ LET r == createH2SpecWithStr(ak.fields, ak.settings, ak.connFlow, ak.order)
       IN IF r.err # NoError
          THEN ak' = [ak EXCEPT !.pc = "done", !.err = r.err]
          ELSE ak' = [ak EXCEPT !.pc = "done", !.h2 = r.spec]
    /\ UNCHANGED notAkamaiVars

AkamaiNext == SetAkamaiWithStr

(***************************************************************************)
(* Redirect policy (src/client.go, SetRedirectPolicy)                      *)
(***************************************************************************)
\* A policy is nil, or a function that lets the redirect pass, or one that
\* refuses it with its own error.
NilPolicy == "nil"
Policies == {NilPolicy, "allow", "deny1", "deny2"}
PolicyErr(f) == IF f = "allow" THEN NoError ELSE f
\* The check the client has before any SetRedirectPolicy.
PreviousCheck == <<"deny2", "allow">>

RECURSIVE checkRedirect_LastError(_, _, _)
checkRedirect_LastError(policies, i, invoked) ==
    IF i > Len(policies) THEN [invoked |-> invoked, err |-> NoError]
    ELSE IF policies[i] = NilPolicy THEN checkRedirect_LastError(policies, i + 1, invoked)
    ELSE LET r == checkRedirect_LastError(policies, i + 1, Append(invoked, i))
         IN IF r.err # NoError THEN r
            ELSE [invoked |-> r.invoked, err |-> PolicyErr(policies[i])]

RECURSIVE checkRedirect(_, _, _)
\* The closure installed as CheckRedirect, from the i-th policy on: the
\* policies it invokes, in order, and what it returns
checkRedirect(policies, i, invoked) ==
    IF i > Len(policies) THEN [invoked |-> invoked, err |-> NoError]
    ELSE IF policies[i] = NilPolicy THEN checkRedirect(policies, i + 1, invoked)
    ELSE IF PolicyErr(policies[i]) # NoError
    THEN [invoked |-> Append(invoked, i), err |-> PolicyErr(policies[i])]
    ELSE checkRedirect(policies, i + 1, Append(invoked, i))

RECURSIVE PolicyListsOf(_)
PolicyListsOf(n) ==
    IF n = 0 THEN {<<>>}
    ELSE PolicyListsOf(n - 1)
         \cup {Append(l, f) : l \in {y \in PolicyListsOf(n - 1) : Len(y) = n - 1},
                              f \in Policies}

\* No SetRedirectPolicy and no redirect yet.  (given and before are the
\* argument of the last SetRedirectPolicy and the check before it; invoked
\* and err are of the last call of the check.)
RedirectParked ==
    rp = [check |-> PreviousCheck, ops |-> 0, last |-> "none", given |-> <<>>,
          before |-> PreviousCheck, invoked |-> <<>>, err |-> NoError]
RedirectInit == RedirectParked

\* Client.SetRedirectPolicy(policies...)
SetRedirectPolicy ==
    /\ rp.ops < MaxRedirectOps
    /\ \E policies \in PolicyListsOf(MaxPolicies) :
         rp' = [rp EXCEPT !.ops = @ + 1, !.last = "set", !.given = policies,
                          !.before = rp.check,
                          !.check = IF Len(policies) = 0 THEN @ ELSE policies,
                          !.invoked = <<>>, !.err = NoError]
    /\ UNCHANGED notRedirectVars

\* The http client follows a redirect and calls CheckRedirect.
CheckRedirect ==
    /\ rp.ops < MaxRedirectOps
    /\ LET r == checkRedirect(rp.check, 1, <<>>)
       IN rp' = [rp EXCEPT !.ops = @ + 1, !.last = "check", !.invoked = r.invoked,
                           !.err = r.err, !.given = <<>>, !.before = rp.check]
    /\ UNCHANGED notRedirectVars

RedirectNext == SetRedirectPolicy \/ CheckRedirect

(***************************************************************************)
(* Client.Clone and the registrations it has to keep apart (src/client.go) *)
(*                                                                         *)
(* A Go slice is a header (array, len, cap) over a backing array; arrays   *)
(* is the heap of backing arrays.  An append within the capacity writes    *)
(* into the backing array, one beyond it allocates a new array.            *)
(***************************************************************************)
NilSlice == [arr |-> 0, len |-> 0, cap |-> 0]
NoElem == "none"
\* The elements a slice header shows.
SliceSeq(heap, s) == IF s.len = 0 THEN <<>> ELSE SubSeq(heap[s.arr], 1, s.len)
\* The capacity append grows a slice of capacity cap to when needed elements
\* have to fit (runtime growslice, below 256 elements).
growCap(cap, needed) == IF needed > 2 * cap THEN needed ELSE 2 * cap

\* append(s, x): the heap and the slice header after it
appendSlice(heap, s, x) ==
    IF s.len < s.cap
    THEN [heap |-> [heap EXCEPT ![s.arr][s.len + 1] = x],
          s |-> [s EXCEPT !.len = @ + 1]]
    ELSE [heap |-> Append(heap, [i \in 1..growCap(s.cap, s.len + 1) |->
                                    IF i <= s.len THEN heap[s.arr][i]
                                    ELSE IF i = s.len + 1 THEN x ELSE NoElem]),
          s |-> [arr |-> Len(heap) + 1, len |-> s.len + 1,
                 cap |-> growCap(s.cap, s.len + 1)]]

\* cloneSlice(s): a new array holding the elements of s (nil for none)
cloneSlice(heap, s) ==
    IF s.len = 0 THEN [heap |-> heap, s |-> NilSlice]
    ELSE [heap |-> Append(heap, SliceSeq(heap, s)),
          s |-> [arr |-> Len(heap) + 1, len |-> s.len, cap |-> s.len]]

ClientNames == {"c", "c2"}
ParamKeys == {"k1"}
NilRoundTrip == [base |-> "nil", ws |-> <<>>]
\* A client as NewClient leaves it, with the cookie jar jar.
NewClient(jar) ==
    [udBeforeRequest |-> NilSlice, afterResponse |-> NilSlice,
     roundTripWrappers |-> NilSlice, wrappedRoundTrip |-> NilRoundTrip,
     PathParams |-> [k \in ParamKeys |-> NoElem],
     QueryParams |-> [k \in ParamKeys |-> NoElem],
     FormData |-> [k \in ParamKeys |-> NoElem], Jar |-> jar]
CookieJarFactories == {"nil", "memoryCookieJarFactory"}

\* Clone has not been called and nothing registered.
CloneParked ==
    cln = [heap |-> <<>>, cloned |-> FALSE, ops |-> 0, actor |-> "c",
           factory |-> "nil", jars |-> 1,
           clients |-> [x \in ClientNames |-> NewClient(1)]]
\* A client with or without a cookie jar factory.
CloneInit ==
    \E f \in CookieJarFactories :
        cln = [heap |-> <<>>, cloned |-> FALSE, ops |-> 0, actor |-> "c",
               factory |-> f, jars |-> 1,
               clients |-> [x \in ClientNames |-> NewClient(1)]]

\* The clients there are.
Clients == IF cln.cloned THEN ClientNames ELSE {"c"}
\* The middleware, wrapper or value registered on client x: told apart by
\* the client it was registered on.
Fresh(x) == x

\* Client.OnBeforeRequest(m)
OnBeforeRequest ==
    /\ cln.ops < MaxConfigOps
    /\ \E x \in Clients :
         LET r == appendSlice(cln.heap, cln.clients[x].udBeforeRequest, Fresh(x))
         IN cln' = [cln EXCEPT !.heap = r.heap, !.ops = @ + 1, !.actor = x,
                               !.clients[x].udBeforeRequest = r.s]
    /\ UNCHANGED notCloneVars

\* Client.OnAfterResponse(m), on the clients of Clone
CloneOnAfterResponse ==
    /\ cln.ops < MaxConfigOps
    /\ \E x \in Clients :
         LET r == appendSlice(cln.heap, cln.clients[x].afterResponse, Fresh(x))
         IN cln' = [cln EXCEPT !.heap = r.heap, !.ops = @ + 1, !.actor = x,
                               !.clients[x].afterResponse = r.s]
    /\ UNCHANGED notCloneVars

\* Client.WrapRoundTrip(w) with one wrapper
WrapRoundTrip ==
    /\ cln.ops < MaxConfigOps
    /\ \E x \in Clients :
         LET cl == cln.clients[x]
             first == cl.wrappedRoundTrip = NilRoundTrip
             r == IF first
                  THEN [heap |-> Append(cln.heap, <<Fresh(x)>>),
                        s |-> [arr |-> Len(cln.heap) + 1, len |-> 1, cap |-> 1]]
                  ELSE appendSlice(cln.heap, cl.roundTripWrappers, Fresh(x))
             wrt == IF first THEN [base |-> x, ws |-> <<>>] ELSE cl.wrappedRoundTrip
         IN cln' = [cln EXCEPT !.heap = r.heap, !.ops = @ + 1, !.actor = x,
                               !.clients[x].roundTripWrappers = r.s,
                               !.clients[x].wrappedRoundTrip =
                                   [wrt EXCEPT !.ws = Append(@, Fresh(x))]]
    /\ UNCHANGED notCloneVars

\* Client.SetCommonPathParam, SetCommonQueryParam and SetCommonFormData
SetCommonParam ==
    /\ cln.ops < MaxConfigOps
    /\ \E x \in Clients, k \in ParamKeys :
         \/ cln' = [cln EXCEPT !.ops = @ + 1, !.actor = x,
                               !.clients[x].PathParams[k] = Fresh(x)]
         \/ cln' = [cln EXCEPT !.ops = @ + 1, !.actor = x,
                               !.clients[x].QueryParams[k] = Fresh(x)]
         \/ cln' = [cln EXCEPT !.ops = @ + 1, !.actor = x,
                               !.clients[x].FormData[k] = Fresh(x)]
    /\ UNCHANGED notCloneVars

\* c2 = c.Clone()
Clone ==
    /\ ~cln.cloned /\ cln.ops < MaxConfigOps
    /\ LET c == cln.clients["c"]
           b == cloneSlice(cln.heap, c.udBeforeRequest)
           u == cloneSlice(b.heap, c.afterResponse)
           cc == [c EXCEPT
                    !.Jar = IF cln.factory = "nil" THEN @ ELSE cln.jars + 1,
                    !.wrappedRoundTrip =
                        IF c.roundTripWrappers.len > 0
                        THEN [base |-> "c2",
                              ws |-> SliceSeq(cln.heap, c.roundTripWrappers)]
                        ELSE @,
                    !.udBeforeRequest = b.s, !.afterResponse = u.s]
       IN cln' = [cln EXCEPT !.heap = u.heap, !.cloned = TRUE, !.ops = @ + 1,
                             !.actor = "c2",
                             !.jars = IF cln.factory = "nil" THEN @ ELSE @ + 1,
                             !.clients["c2"] = cc]
    /\ UNCHANGED notCloneVars

CloneNext ==
    OnBeforeRequest \/ CloneOnAfterResponse \/ WrapRoundTrip \/ SetCommonParam \/ Clone

(***************************************************************************)
(* autoDecodeReadCloser.peekDrain (exercised by TestPeekDrain in           *)
(* src/fingerprint.go; the method itself is declared outside src/)         *)
(***************************************************************************)
NilBytes == "nil"
Bytes == {"t", "e", "s"}
BytesLen(b) == IF b = NilBytes THEN 0 ELSE Len(b)
Min(a, b) == IF a < b THEN a ELSE b

peekDrain_DropsRest(peek, plen) ==
    [n |-> Min(plen, BytesLen(peek)),
     p |-> IF BytesLen(peek) = 0 THEN <<>> ELSE SubSeq(peek, 1, Min(plen, BytesLen(peek))),
     peek |-> NilBytes]

\* peekDrain(p) with len(p) = plen: the count returned, the bytes copied to
\* the front of p, and the peek buffer left
peekDrain(peek, plen) ==
    LET n == Min(plen, BytesLen(peek))
    IN [n |-> n,
        p |-> IF n = 0 THEN <<>> ELSE SubSeq(peek, 1, n),
        peek |-> IF BytesLen(peek) > plen THEN SubSeq(peek, plen + 1, Len(peek))
                 ELSE NilBytes]

RECURSIVE PeeksOf(_)
PeeksOf(n) ==
    IF n = 1 THEN {<<b>> : b \in Bytes}
    ELSE PeeksOf(n - 1)
         \cup {Append(l, b) : l \in {y \in PeeksOf(n - 1) : Len(y) = n - 1}, b \in Bytes}

\* No reader.
PeekParked ==
    pk = [data |-> <<"t">>, peek |-> <<"t">>, out |-> <<>>, calls |-> 0, n |-> 0,
          plen |-> 0]
\* A reader that has peeked some bytes.
PeekInit ==
    \E d \in PeeksOf(MaxPeek) :
        pk = [data |-> d, peek |-> d, out |-> <<>>, calls |-> 0, n |-> 0, plen |-> 0]

\* One call of peekDrain with a buffer of some length, while there is a peek
\* buffer (Read drains it only while peek is not nil).
PeekDrain ==
    /\ pk.calls < MaxPeekCalls /\ pk.peek # NilBytes
    /\ \E plen \in 0..MaxPeek + 1 :
         LET r == peekDrain(pk.peek, plen)
         IN pk' = [pk EXCEPT !.peek = r.peek, !.out = @ \o r.p, !.n = r.n,
                             !.plen = plen, !.calls = @ + 1]
    /\ UNCHANGED notPeekVars

PeekNext == PeekDrain

\* The other configuration at rest.
MiscParked == AkamaiParked /\ RedirectParked /\ CloneParked /\ PeekParked

(***************************************************************************)
(* Specifications: one per subsystem, the other subsystems at rest.        *)
(***************************************************************************)
InitPool == PoolInit /\ ClientInit /\ H3Parked /\ DigestParked /\ DigestAuthParked /\ Ja3Parked /\ MiscParked
SpecPool == InitPool /\ [][PoolNext]_vars

\* The pool with every goroutine scheduled, every dial returning and every
\* connection accepting at least one reservation: a goroutine that can take
\* a step of GetClientConn or of dialCall2.dial does not stay before it for
\* ever.
SpecPoolFair ==
    /\ InitPool /\ [][PoolFreshNext]_vars
    /\ \A g \in Callers :
          /\ WF_vars(GetClientConnDialOwn(g))
          /\ WF_vars(GetClientConnLock(g))
          /\ WF_vars(GetClientConnScanFresh(g))
          /\ WF_vars(GetClientConnAwaitFresh(g))
    /\ \A id \in CallIds :
          /\ WF_vars(DialReturn(id))
          /\ WF_vars(DialPublish(id))
          /\ WF_vars(DialDone(id))

\* The pool under AddConnIfNeeded and MarkDead.
SpecAddConn == InitPool /\ [][AddConnNext]_vars

InitClient == ClientInit /\ PoolInit /\ H3Parked /\ DigestParked /\ DigestAuthParked /\ Ja3Parked /\ MiscParked
SpecClient == InitClient /\ [][ClientNext]_vars

\* A connection of either perspective, with or without an idle timeout.
InitH3Idle == ConnInit(Configs, {"none"}) /\ PoolInit /\ ClientInit /\ DigestParked /\ DigestAuthParked /\ Ja3Parked /\ MiscParked
SpecH3Idle == InitH3Idle /\ [][H3IdleNext]_vars

\* A connection of either perspective without idle timeout.
InitH3Uni ==
    ConnInit({c \in Configs : c.idleTimeout = 0}, {"none"}) /\ PoolInit /\ ClientInit
    /\ DigestParked /\ DigestAuthParked /\ Ja3Parked /\ MiscParked
SpecH3Uni == InitH3Uni /\ [][H3UniNext]_vars

InitH3Datagram ==
    ConnInit({c \in Configs : c.idleTimeout = 0}, {"none"}) /\ PoolInit /\ ClientInit
    /\ DigestParked /\ DigestAuthParked /\ Ja3Parked /\ MiscParked
SpecH3Datagram == InitH3Datagram /\ [][H3DatagramNext]_vars
\* The same with the goroutine of receiveDatagrams scheduled: it does not stay
\* for ever before a step it can take.
SpecH3DatagramFair ==
    SpecH3Datagram /\ WF_vars(ReceiveDatagram) /\ WF_vars(ReceiveDatagramParse)
                   /\ WF_vars(ReceiveDatagramEnqueue)

\* The client's connection, as SingleDestinationRoundTripper.init makes it
\* (client.go, lines 68-92): a client, without idle timeout.
InitH3RoundTrip ==
    ConnInit({c \in ClientConfigs : ~c.supportsDatagrams}, {"none", "pending"})
    /\ PoolInit /\ ClientInit /\ DigestParked /\ DigestAuthParked /\ Ja3Parked /\ MiscParked
SpecH3RoundTrip == InitH3RoundTrip /\ [][H3RoundTripNext]_vars
\* The same with a request goroutine that is scheduled: a select of which a
\* case is ready does not wait forever.
SpecH3RoundTripFair ==
    SpecH3RoundTrip /\ WF_vars(H3AwaitHandshake) /\ WF_vars(H3AwaitSettings)

\* A credentials object made from any of the challenges.
InitDigest ==
    DigestInit /\ DigestAuthParked /\ PoolInit /\ ClientInit /\ H3Parked /\ Ja3Parked /\ MiscParked
SpecDigest == InitDigest /\ [][DigestNext]_vars

\* A response handed to the digest middleware.
InitDigestAuth ==
    DigestAuthInit /\ DigestParked /\ PoolInit /\ ClientInit /\ H3Parked /\ Ja3Parked /\ MiscParked
SpecDigestAuth == InitDigestAuth /\ [][DigestAuthNext]_vars

\* A JA3 string handed to SetJa3WithStr.
InitJa3 ==
    Ja3Init /\ DigestParked /\ DigestAuthParked /\ PoolInit /\ ClientInit /\ H3Parked
    /\ MiscParked
SpecJa3 == InitJa3 /\ [][Ja3Next]_vars

\* A list of tokens handed to one of the list builders of SetJa3WithStr.
InitJa3List ==
    /\ Ja3ListInit
    /\ ja3 = [pc |-> "idle", version |-> <<>>, tokens |-> 5, ciphers |-> <<>>,
              extensions |-> <<>>, curves |-> <<>>, points |-> <<>>,
              applied |-> FALSE, max |-> 0, min |-> 0, versions |-> <<>>,
              cipherSuites |-> <<>>, exts |-> <<>>]
    /\ DigestParked /\ DigestAuthParked /\ PoolInit /\ ClientInit /\ H3Parked
    /\ MiscParked
SpecJa3List == InitJa3List /\ [][Ja3ListNext]_vars

\* An Akamai string handed to SetAkamaiWithStr.
InitAkamai ==
    /\ AkamaiInit /\ RedirectParked /\ CloneParked /\ PeekParked
    /\ Ja3Parked /\ DigestParked /\ DigestAuthParked /\ PoolInit /\ ClientInit /\ H3Parked
SpecAkamai == InitAkamai /\ [][AkamaiNext]_vars

\* Redirect policies are set and redirects checked.
InitRedirect ==
    /\ RedirectInit /\ AkamaiParked /\ CloneParked /\ PeekParked
    /\ Ja3Parked /\ DigestParked /\ DigestAuthParked /\ PoolInit /\ ClientInit /\ H3Parked
SpecRedirect == InitRedirect /\ [][RedirectNext]_vars

\* Registrations on a client and on its clone.
InitClone ==
    /\ CloneInit /\ AkamaiParked /\ RedirectParked /\ PeekParked
    /\ Ja3Parked /\ DigestParked /\ DigestAuthParked /\ PoolInit /\ ClientInit /\ H3Parked
SpecClone == InitClone /\ [][CloneNext]_vars

\* A peek buffer is drained.
InitPeek ==
    /\ PeekInit /\ AkamaiParked /\ RedirectParked /\ CloneParked
    /\ Ja3Parked /\ DigestParked /\ DigestAuthParked /\ PoolInit /\ ClientInit /\ H3Parked
SpecPeek == InitPeek /\ [][PeekNext]_vars

(***************************************************************************)
(* Claims about the pool                                                   *)
(***************************************************************************)

\* C1: once MarkDead(c) has returned, no GetClientConn call that starts
\* afterwards returns c.  (dead[c] is the number of calls that had started
\* when MarkDead(c) first returned; calls are numbered in starting order.)
C1_DeadConnNeverReturned ==
    \A g \in Callers :
        (gs[g].pc = "done" /\ gs[g].res # NoConn /\ gs[g].res \in DOMAIN dead)
            => g <= dead[gs[g].res]

\* The shared dials to addr that are in flight: dialClientConn is running or
\* its result is not yet published.
InFlightShared(addr) ==
    {id \in DOMAIN calls : calls[id].addr = addr /\ calls[id].state \in {"dialing", "returned"}}
\* The single-use dials to addr that are in flight.
InFlightOwn(addr) ==
    {g \in Callers : gs[g].pc = "dialOwn" /\ gs[g].addr = addr}

\* C2 as stated: for every key at most one dial to that key is in flight,
\* whatever GetClientConn calls with dialOnMiss = true run concurrently.
C2_AtMostOneDialPerKey ==
    \A addr \in Addrs :
        Cardinality(InFlightShared(addr)) + Cardinality(InFlightOwn(addr)) <= 1

\* C2 amended: for every key at most one shared dial (a dialCall2) is in
\* flight, and it is the one registered in p.dialing; the single-use dials of
\* requests that demand their own connection are not limited.
C2_AtMostOneSharedDialPerKey ==
    \A addr \in Addrs :
        /\ Cardinality(InFlightShared(addr)) <= 1
        /\ InFlightShared(addr) = (IF addr \in DOMAIN dialing THEN {dialing[addr]} ELSE {})

\* C2 witness: two goroutines wait for the same in-flight dial.
C2_Witness ==
    /\ gs[1].pc = "wait" /\ gs[2].pc = "wait"
    /\ gs[1].call = gs[2].call
    /\ calls[gs[1].call].state = "dialing"

\* The scenario of C3: every GetClientConn call entered so far is for the
\* same key and shares connections, the pool started empty, no dial failed
\* and MarkDead was not called.
C3_Scenario ==
    /\ started >= 1
    /\ \A g, g2 \in 1..started : gs[g].addr = gs[g2].addr
    /\ \A g \in 1..started : ~gs[g].own
    /\ ~dialFailed
    /\ dead = EmptyMap

C4_Awaited(g) == gs[g].pc = "wait" /\ gs'[g].pc # "wait"
C4_ContextError(e) == e \in {ErrCanceled, ErrDeadlineExceeded}

\* C4 as stated: a waiter whose shared dial failed with Canceled or
\* DeadlineExceeded under another request's context scans again; a dial error
\* of any other kind, or of a dial under the waiter's own context, is returned.
C4_RetryOnForeignContextError ==
    [][\A g \in Callers : C4_Awaited(g) =>
        LET call == calls[gs[g].call] IN
        /\ (C4_ContextError(call.err) /\ call.ctx # gs[g].ctx)
              => gs'[g].pc = "scan"
        /\ (call.err # NoErr /\ (call.ctx = gs[g].ctx \/ ~C4_ContextError(call.err)))
              => gs'[g].pc = "done" /\ gs'[g].err = call.err /\ gs'[g].res = NoConn
    ]_vars

\* C4 amended: the waiter scans again only if, in addition, the dial's
\* context is itself done (ctx.Err() # nil); in every other case the dial
\* error is returned.
C4_RetryOnlyIfDialContextDone ==
    [][\A g \in Callers : C4_Awaited(g) =>
        LET call == calls[gs[g].call]
            retry == /\ C4_ContextError(call.err)
                     /\ call.ctx # gs[g].ctx
                     /\ call.ctx \in ctxDone
        IN
        /\ retry => gs'[g].pc = "scan"
        /\ (call.err # NoErr /\ ~retry)
              => gs'[g].pc = "done" /\ gs'[g].err = call.err /\ gs'[g].res = NoConn
    ]_vars

\* C4 witness: goroutine 2 has been handed the DeadlineExceeded error of a
\* dial started under goroutine 1's context, which is not done; goroutine 1
\* still waits for that dial.
C4_Witness ==
    /\ gs[1].pc = "wait" /\ nCalls = 1
    /\ calls[gs[1].call].state = "done"
    /\ calls[gs[1].call].err = ErrDeadlineExceeded
    /\ calls[gs[1].call].ctx = gs[1].ctx
    /\ gs[1].ctx \notin ctxDone
    /\ gs[2].pc = "done" /\ ~gs[2].own /\ gs[2].dialOnMiss
    /\ gs[2].addr = gs[1].addr /\ gs[2].ctx # gs[1].ctx
    /\ gs[2].err = ErrDeadlineExceeded

(***************************************************************************)
(* Claims about Client.roundTrip                                           *)
(***************************************************************************)

\* C5: the post-response middleware run in registration order; once one of
\* them has returned an error no later middleware is invoked, and the error
\* finally reported is that first middleware error.
C5_MiddlewareShortCircuits ==
    /\ Len(rt.invoked) <= Len(afterResponse)
    /\ \A k \in 1..Len(rt.invoked) : rt.invoked[k].mw = afterResponse[k]
    /\ \A k \in 1..Len(rt.invoked) : rt.invoked[k].e # NilErr => k = Len(rt.invoked)
    /\ \A k \in 1..Len(rt.invoked) :
          (rt.pc = "done" /\ rt.invoked[k].e # NilErr) => rt.err = rt.invoked[k].e

(***************************************************************************)
(* Claims about the HTTP/3 client and connection                           *)
(***************************************************************************)

\* C6: an Extended CONNECT request has a request stream only if the peer's
\* SETTINGS have been received and enable Extended CONNECT; if the received
\* settings do not enable it, the request has no stream and, once it has
\* returned, it has returned an error and no response.
C6_ExtendedConnectAfterSettings ==
    h3req.extended =>
        /\ h3req.stream # -1 =>
              /\ settingsArrived
              /\ settings.kind = "settings"
              /\ settings.ExtendedConnect
        /\ (settings.kind = "settings" /\ ~settings.ExtendedConnect) =>
              /\ h3req.stream = -1
              /\ h3req.pc = "done" => (h3req.err # "" /\ ~h3req.rsp)

\* C6 witness: an Extended CONNECT request has opened its stream, on a
\* connection whose peer enabled Extended CONNECT.
C6_Witness ==
    /\ h3req.extended /\ h3req.method = "CONNECT"
    /\ h3req.stream \in streams
    /\ receivedSettings = 1 /\ settings.ExtendedConnect

\* C7: with a positive idle timeout the idle timer is armed only while the
\* stream table is empty, and the step in which the idle timer closes the
\* connection (with H3_NO_ERROR) is taken with an empty stream table.
C7_IdleTimerOnlyWhileNoStreams ==
    [][/\ (cfg.idleTimeout > 0 /\ idleTimer' = "armed") => streams' = {}
       /\ (closeCode = Open /\ closeCode' = ErrCodeNoError) => streams = {}
      ]_vars

\* C8: the step of receiveDatagrams that handles a datagram whose quarter
\* stream ID parses, is in range and names a stream that is not registered
\* leaves every stream's queue and the connection's close state as they are,
\* and enqueues nothing afterwards.
C8_UnknownStreamDatagramDropped ==
    [][(/\ dg.pc = "parse" /\ dg'.pc # "parse"
        /\ dg.b.parses /\ dg.b.q <= maxQuarterStreamID
        /\ 4 * dg.b.q \notin streams)
       => /\ dgQueue' = dgQueue
          /\ closeCode' = closeCode
          /\ dg'.pc # "enqueue"
      ]_vars

\* C8 witness: a datagram for an unknown stream has been handled, nothing was
\* ever enqueued and the connection is open.
C8_Witness ==
    /\ dg.pc = "returned" /\ dg.n = 1
    /\ closeCode = Open
    /\ streams # {}
    /\ \A id \in StreamIDs : dgQueue[id] = <<>>

\* C9: the step of receiveDatagrams that handles a datagram whose quarter
\* stream ID does not parse or exceeds maxQuarterStreamID calls CloseWithError
\* with H3_DATAGRAM_ERROR (the code of the connection from then on, unless it
\* was closed before), changes no stream's queue and ends receiveDatagrams
\* with an error.
C9_BadQuarterStreamIDClosesConnection ==
    [][(/\ dg.pc = "parse" /\ dg'.pc # "parse"
        /\ ~dg.b.parses \/ dg.b.q > maxQuarterStreamID)
       => /\ closeCode' = IF closeCode = Open THEN ErrCodeDatagramError ELSE closeCode
          /\ dgQueue' = dgQueue
          /\ dg'.pc = "failed"
      ]_vars

\* C9 witness: receiveDatagrams has ended on a datagram it could not parse
\* and the connection is closed with H3_DATAGRAM_ERROR, with a stream
\* registered.
C9_Witness ==
    /\ dg.pc = "failed"
    /\ closeCode = ErrCodeDatagramError
    /\ streams # {}

\* C10: a control, QPACK encoder or QPACK decoder stream whose type is read
\* after one of the same type goes on to CloseWithError with
\* H3_STREAM_CREATION_ERROR (the code of the connection from then on, unless
\* it was closed before) and to nothing else; once the type of a control
\* stream has been read, exactly one control stream is or was at the SETTINGS,
\* and receivedSettings is closed at most once.
C10_DuplicateStreamsCloseConnection ==
    [][/\ \A s \in UniStreams :
            /\ (/\ uni[s].pc = "accepted" /\ uni'[s].pc # "accepted"
                /\ uni'[s].type \in {"control", "qpackEncoder", "qpackDecoder"})
               => /\ rcvd'[uni'[s].type]
                  /\ uni'[s].pc =
                        IF rcvd[uni'[s].type] THEN "closeDuplicate"
                        ELSE IF uni'[s].type = "control" THEN "parse" ELSE "done"
            /\ (uni[s].pc = "closeDuplicate" /\ uni'[s].pc # "closeDuplicate")
               => /\ uni'[s].pc = "closed"
                  /\ closeCode' = IF closeCode = Open THEN ErrCodeStreamCreationError
                                                       ELSE closeCode
       /\ \A ty \in DOMAIN rcvd : rcvd[ty] => rcvd'[ty]
       /\ LET control == {s \in UniStreams : uni'[s].type = "control"} IN
          control # {} =>
             Cardinality({s \in control :
                            uni'[s].pc \in {"parse", "store", "ready", "done"}}) = 1
       /\ receivedSettings' <= 1
      ]_vars

\* C10 witness: the first control stream brought the SETTINGS, the second
\* closed the connection with H3_STREAM_CREATION_ERROR.
C10_Witness ==
    /\ \A s \in UniStreams : uni[s].type = "control"
    /\ \E s \in UniStreams : uni[s].pc = "done"
    /\ \E s \in UniStreams : uni[s].pc = "closed"
    /\ receivedSettings = 1
    /\ closeCode = ErrCodeStreamCreationError

\* C11: on an early connection a request whose method is neither GET_0RTT
\* nor HEAD_0RTT has a request stream only once the handshake is complete,
\* and when it leaves the wait for the handshake by returning, the request
\* context is done, the error is the context's and no stream was opened; a
\* GET_0RTT or HEAD_0RTT request never enters the wait for the handshake.
C11_HandshakeBeforeStream ==
    [][/\ (/\ handshake' # "none"
           /\ h3req'.method \notin {MethodGet0RTT, MethodHead0RTT}
           /\ h3req'.stream # -1)
          => handshake' = "complete"
       /\ (h3req.pc = "handshake" /\ h3req'.pc = "done")
          => /\ h3req.ctxDone
             /\ h3req'.err = ErrReqContext
             /\ h3req'.stream = -1
       /\ h3req'.method \in {MethodGet0RTT, MethodHead0RTT} => h3req'.pc # "handshake"
      ]_vars

\* C11 witness: a GET request on an early connection has opened its stream,
\* the handshake being complete.
C11_Witness ==
    /\ handshake = "complete"
    /\ h3req.method = "GET"
    /\ h3req.stream \in streams

\* C12: a response is returned as final only if it is no informational
\* response other than 101 and at most 5 such responses came before it; each
\* informational response adds one to the count, the first five never fail
\* with the too-many-1xx error, and the sixth fails the request with it.
C12_AtMostFiveInformational ==
    [][(h3req.pc = "read" /\ (h3req'.pc # "read" \/ h3req'.num1xx # h3req.num1xx))
       => /\ h3req'.rsp =>
               /\ h3req'.pc = "done"
               /\ ~(100 <= h3req'.status /\ h3req'.status <= 199 /\ h3req'.status # 101)
               /\ h3req'.num1xx = h3req.num1xx
               /\ h3req.num1xx <= 5
          /\ h3req'.num1xx # h3req.num1xx =>
               /\ h3req'.num1xx = h3req.num1xx + 1
               /\ ~h3req'.rsp
               /\ h3req'.num1xx <= 5 => h3req'.err # ErrTooMany1xx
               /\ h3req'.num1xx = 6 =>
                     (h3req'.pc = "failed" /\ h3req'.err = ErrTooMany1xx)
               /\ h3req'.num1xx <= 6
      ]_vars

\* C12 witness: a 200 response has been returned after exactly five
\* informational responses.
C12_Witness ==
    /\ h3req.rsp /\ h3req.status = 200
    /\ h3req.num1xx = 5
    /\ h3req.err = ""

\* C13 as stated: when the cancellation goroutine has ended, both halves of
\* the stream are cancelled if the request context ended first (the stream
\* being open), and none is if reqDone was closed first.
C13_CancelIffContextFirst ==
    h3req.watcher = "done" =>
        /\ h3req.first = "ctx" => h3req.canceled = {"write", "read"}
        /\ h3req.first = "reqDone" => h3req.canceled = {}

\* C13 amended: the same, unless both the context had ended and reqDone was
\* closed when the goroutine reached its select; and the two halves are
\* always cancelled together.
C13_CancelIffContextFirstUnlessRaced ==
    h3req.watcher = "done" =>
        /\ h3req.canceled \in {{}, {"write", "read"}}
        /\ ~h3req.raced =>
              /\ h3req.first = "ctx" => h3req.canceled = {"write", "read"}
              /\ h3req.first = "reqDone" => h3req.canceled = {}

\* C13 witness: the context of a request that has its response ended before
\* reqDone was closed, and both halves of the stream were cancelled.
C13_Witness ==
    /\ h3req.watcher = "done"
    /\ h3req.rsp /\ ~h3req.reqDone
    /\ h3req.first = "ctx" /\ ~h3req.raced
    /\ h3req.canceled = {"write", "read"}

(***************************************************************************)
(* Claims about digest authentication                                      *)
(***************************************************************************)
RECURSIVE Unhex(_)
\* The number a string of hex digits denotes.
Unhex(s) ==
    IF s = <<>> THEN 0
    ELSE 16 * Unhex(SubSeq(s, 1, Len(s) - 1))
         + (CHOOSE d \in 0..15 : HexChars[d + 1] = s[Len(s)])

IsHex8(s) == Len(s) = 8 /\ \A i \in 1..8 : \E d \in 1..16 : HexChars[d] = s[i]

\* The authorize calls that wrote a header, and those whose header has nc.
Authorized(k) == authLog[k].err = NoError
EmittedNc(k) == Authorized(k) /\ HasField(authLog[k].auth, "nc")
NcOf(k) == GetField(authLog[k].auth, "nc")

\* C14 as stated: the first header written carries nc 1, nc grows by one
\* with every further authorize call and is strictly increasing, and is
\* written as 8 hex digits.
C14_NcStartsAtOneInFirstHeader ==
    \A k \in 1..Len(authLog) :
        EmittedNc(k) =>
            /\ IsHex8(NcOf(k))
            /\ (\A j \in 1..(k - 1) : ~Authorized(j)) => Unhex(NcOf(k)) = 1
            /\ \A j \in 1..(k - 1) :
                  EmittedNc(j) => /\ Unhex(NcOf(k)) = Unhex(NcOf(j)) + (k - j)
                                  /\ Unhex(NcOf(j)) < Unhex(NcOf(k))

\* C14, amended: the header written by the k-th authorize call on a
\* credentials object carries nc = k as 8 hex digits, so nc grows by one
\* with every authorize call, counting the calls that failed to read random
\* bytes, and is strictly increasing; it is 1 in the first header when no
\* earlier call failed.
C14_NcCountsAuthorizeCalls ==
    /\ cr.nc <= Len(authLog)
    /\ \A k \in 1..Len(authLog) :
          EmittedNc(k) =>
              /\ IsHex8(NcOf(k))
              /\ Unhex(NcOf(k)) = k
              /\ NcOf(k) = Fmt08x(k)
              /\ \A j \in 1..(k - 1) :
                    EmittedNc(j) => /\ Unhex(NcOf(k)) = Unhex(NcOf(j)) + (k - j)
                                    /\ Unhex(NcOf(j)) < Unhex(NcOf(k))

\* Three calls in a row wrote headers with nc 1, 2 and 3.
C14_Witness ==
    /\ Len(authLog) = 3
    /\ \A k \in 1..3 : EmittedNc(k) /\ NcOf(k) = Fmt08x(k)
    /\ NcOf(1) = <<"0", "0", "0", "0", "0", "0", "0", "1">>

\* The digest response RFC 7616 prescribes for the k-th authorize call and
\* username u, written out from the fields of the header that call produced.
\* The client nonce is the header's, or, in a header without one, the one
\* drawn.
HA1For(k, u) ==
    LET hdr == authLog[k].auth
        cnonce == IF HasField(hdr, "cnonce") THEN GetField(hdr, "cnonce")
                  ELSE authLog[k].cNonce
        basic == h(cr, Colon(<<u, GetField(hdr, "realm"), cr.password>>))
    IN IF HasSuffix(GetField(hdr, "algorithm"), "-sess")
       THEN h(cr, Colon(<<basic, GetField(hdr, "nonce"), cnonce>>))
       ELSE basic
ExpectedHA2(k) == h(cr, Colon(<<cr.method, GetField(authLog[k].auth, "uri")>>))
ResponseFor(k, u) ==
    LET hdr == authLog[k].auth
    IN IF HasField(hdr, "qop")
       THEN h(cr, Colon(<<HA1For(k, u), GetField(hdr, "nonce"), GetField(hdr, "nc"),
                          GetField(hdr, "cnonce"), GetField(hdr, "qop"),
                          ExpectedHA2(k)>>))
       ELSE h(cr, Colon(<<HA1For(k, u), GetField(hdr, "nonce"), ExpectedHA2(k)>>))

\* The username is the one the credentials held when the call began.
ExpectedResponse(k) == ResponseFor(k, authLog[k].username)

\* C15: the response written to the header is h(HA1:nonce:nc:cnonce:qop:HA2)
\* when the challenge's qop is present (and contains auth), and
\* h(HA1:nonce:HA2) when it is absent, with HA1 = h(username:realm:password),
\* or h(HA1:nonce:cnonce) for a -sess algorithm, HA2 = h(method:uri), and nc
\* and cnonce in the hash those written to the header.
C15_ResponseFormula ==
    \A k \in 1..Len(authLog) :
        Authorized(k) =>
            LET hdr == authLog[k].auth
            IN /\ HasField(hdr, "qop") <=> cr.messageQop # <<>>
               /\ HasField(hdr, "qop") =>
                     /\ GetField(hdr, "qop") = cr.messageQop
                     /\ \E i \in 1..Len(Split(cr.messageQop, ", ")) :
                           Split(cr.messageQop, ", ")[i] = <<"auth">>
                     /\ HasField(hdr, "nc") /\ HasField(hdr, "cnonce")
               /\ GetField(hdr, "response") = ExpectedResponse(k)

\* A -sess algorithm with a qop list, and two headers written.
C15_Witness ==
    /\ Len(authLog) >= 2
    /\ Authorized(1) /\ Authorized(2)
    /\ cr.algorithm = <<"SHA-256", "-sess">>
    /\ cr.messageQop = <<"auth-int", ", ", "auth">>
    /\ GetField(authLog[2].auth, "response") = ExpectedResponse(2)
    /\ GetField(authLog[2].auth, "nc") = Fmt08x(2)

\* A header without qop.
C15_WitnessNoQop ==
    /\ Len(authLog) >= 1
    /\ Authorized(1)
    /\ cr.messageQop = <<>>
    /\ ~HasField(authLog[1].auth, "nc")

\* The hash each algorithm name stands for (RFC 7616, section 3.2), by the
\* name of its constructor in Go's crypto packages.
NamedHash(alg) ==
    CASE alg \in {<<>>, <<"MD5">>, <<"MD5", "-sess">>} -> "md5.New"
      [] alg \in {<<"SHA-256">>, <<"SHA-256", "-sess">>} -> "sha256.New"
      [] alg \in {<<"SHA-512-256">>, <<"SHA-512-256", "-sess">>} -> "sha512.New512_256"
      [] OTHER -> "unsupported"

\* The hash constructor behind a hex digest.
HashOf(digest) == digest[2]

\* C16: the digest in the header is computed with MD5 for MD5, MD5-sess and
\* an absent algorithm, with SHA-256 for SHA-256 and SHA-256-sess, and with
\* SHA-512/256 for SHA-512-256 and SHA-512-256-sess; any other algorithm is
\* rejected as unsupported.
C16_HashByAlgorithm ==
    \A k \in 1..Len(authLog) :
        IF NamedHash(cr.algorithm) = "unsupported"
        THEN authLog[k].err = errDigestAlgNotSupported
        ELSE /\ authLog[k].err # errDigestAlgNotSupported
             /\ Authorized(k) =>
                   HashOf(GetField(authLog[k].auth, "response"))
                       = NamedHash(cr.algorithm)

\* C17: with userhash=true in the challenge, every header written for the
\* credentials carries userhash=true and username = h(u:realm) for the
\* plain username u, while HA1 in the response is computed from the plain
\* u; on each authorize call, not only the first.
C17_UserhashOnEveryCall ==
    \A k \in 1..Len(authLog) :
        (Authorized(k) /\ cr.userhash = <<"true">>) =>
            LET hdr == authLog[k].auth
            IN /\ HasField(hdr, "userhash")
               /\ GetField(hdr, "userhash") = <<"true">>
               /\ GetField(hdr, "username") = h(cr, Colon(<<Username, cr.realm>>))
               /\ GetField(hdr, "response") = ResponseFor(k, Username)

\* The same for the first authorize call alone.
C17_UserhashOnFirstCall ==
    (Len(authLog) >= 1 /\ Authorized(1) /\ cr.userhash = <<"true">>) =>
        LET hdr == authLog[1].auth
        IN /\ HasField(hdr, "userhash")
           /\ GetField(hdr, "userhash") = <<"true">>
           /\ GetField(hdr, "username") = h(cr, Colon(<<Username, cr.realm>>))
           /\ GetField(hdr, "response") = ResponseFor(1, Username)

\* ---- the challenge as RFC 7616 reads it ----
RECURSIVE QuotedSplit(_, _, _)
\* The directives of a challenge: split at the commas outside quoted strings.
QuotedSplit(s, cur, inQuotes) ==
    IF s = <<>> THEN <<cur>>
    ELSE IF s[1] = "," /\ ~inQuotes
    THEN <<cur>> \o QuotedSplit(Tail(s), <<>>, FALSE)
    ELSE QuotedSplit(Tail(s), Append(cur, s[1]),
                     IF s[1] = "\"" THEN ~inQuotes ELSE inQuotes)

IsDigest(chal) == Trim(chal, Whitespace) # <<>> /\ Trim(chal, Whitespace)[1] = "Digest "
ChalDirectives(chal) ==
    LET ds == QuotedSplit(Trim(Tail(Trim(chal, Whitespace)), Whitespace), <<>>, FALSE)
    IN [i \in DOMAIN ds |-> Trim(ds[i], Whitespace)]
HasEquals(d) == \E i \in 1..Len(d) : d[i] = "="
DName(d) == SplitN2(d)[1]
DValue(d) == Trim(SplitN2(d)[2], Quote)
KnownDirectives ==
    {<<"realm">>, <<"domain">>, <<"nonce">>, <<"opaque">>, <<"stale">>, <<"algorithm">>,
     <<"qop">>, <<"charset">>, <<"userhash">>}
HasDirective(chal, name) ==
    \E i \in DOMAIN ChalDirectives(chal) :
        HasEquals(ChalDirectives(chal)[i]) /\ DName(ChalDirectives(chal)[i]) = name
\* The value of the last directive of that name.
LastValue(chal, name) ==
    LET ds == ChalDirectives(chal)
        i == CHOOSE i \in DOMAIN ds :
                 /\ HasEquals(ds[i]) /\ DName(ds[i]) = name
                 /\ \A j \in DOMAIN ds : (j > i /\ HasEquals(ds[j])) => DName(ds[j]) # name
    IN DValue(ds[i])
\* The elements of a qop list.
QopList(v) == LET l == Split(v, ",") IN {Trim(l[i], Whitespace) : i \in DOMAIN l}

\* The conditions of C19.
ChalMissing(chal) == chal = <<>>
ChalNotDigest(chal) == chal # <<>> /\ ~IsDigest(chal)
ChalNoEquals(chal) ==
    IsDigest(chal) /\ \E i \in DOMAIN ChalDirectives(chal) : ~HasEquals(ChalDirectives(chal)[i])
ChalUnknownDirective(chal) ==
    IsDigest(chal) /\ \E i \in DOMAIN ChalDirectives(chal) :
                          /\ HasEquals(ChalDirectives(chal)[i])
                          /\ DName(ChalDirectives(chal)[i]) \notin KnownDirectives
ChalBadCharset(chal) ==
    IsDigest(chal) /\ \E i \in DOMAIN ChalDirectives(chal) :
                          /\ HasEquals(ChalDirectives(chal)[i])
                          /\ DName(ChalDirectives(chal)[i]) = <<"charset">>
                          /\ DValue(ChalDirectives(chal)[i]) \notin {<<"UTF-8">>, <<"utf-8">>}
ChalBadAlgorithm(chal) ==
    /\ IsDigest(chal) /\ HasDirective(chal, <<"algorithm">>)
    /\ LastValue(chal, <<"algorithm">>) \notin
          {<<"MD5">>, <<"MD5", "-sess">>, <<"SHA-256">>, <<"SHA-256", "-sess">>,
           <<"SHA-512-256">>, <<"SHA-512-256", "-sess">>}
ChalQopWithoutAuth(chal) ==
    /\ IsDigest(chal) /\ HasDirective(chal, <<"qop">>)
    /\ <<"auth">> \notin QopList(LastValue(chal, <<"qop">>))
ChalRejected(chal) ==
    \/ ChalMissing(chal) \/ ChalNotDigest(chal) \/ ChalNoEquals(chal)
    \/ ChalUnknownDirective(chal) \/ ChalBadCharset(chal) \/ ChalBadAlgorithm(chal)
    \/ ChalQopWithoutAuth(chal)

\* A valid Digest challenge: none of the above, and realm and nonce given.
ValidChallenge(chal) ==
    /\ ~ChalRejected(chal)
    /\ HasDirective(chal, <<"realm">>) /\ HasDirective(chal, <<"nonce">>)

Returned == dmw.pc \in {"returned", "done"}
\* The middleware failed for a reason of its own: no random bytes, or the
\* body of the request could not be made again.
LocalFailure == dmw.ret \in {ErrRandRead, ErrParseRequestBody, ErrGetBody}

\* C18: for a response without error, with status 401 and a valid Digest
\* challenge, the middleware sends exactly one more request and its result
\* replaces the prior response (granted random bytes and a body that can be
\* made again); for a response with an error or another status it sends
\* nothing; it never sends a further request, also when the answer to the
\* re-sent request is 401 again.
C18_OneResendForValidChallenge ==
    Returned =>
        /\ dmw.sent <= 1
        /\ (dmw.err # NoError \/ dmw.status # 401) =>
              /\ dmw.sent = 0 /\ dmw.ret = NoError
              /\ dmw.response \in {"prior", "none"}
        /\ (dmw.err = NoError /\ dmw.status = 401 /\ ValidChallenge(dmw.chal)
            /\ ~LocalFailure) =>
              /\ dmw.sent = 1
              /\ dmw.response \in {"resent", "nil"}
              /\ dmw.response = "nil" <=> dmw.ret = ErrTransport

\* The same for the challenges parseChallenge and authorize accept: those of
\* C18 whose quoted values hold no comma.
C18_OneResendForAcceptedChallenge ==
    Returned =>
        /\ dmw.sent <= 1
        /\ (dmw.err # NoError \/ dmw.status # 401) =>
              /\ dmw.sent = 0 /\ dmw.ret = NoError
              /\ dmw.response \in {"prior", "none"}
        /\ (dmw.err = NoError /\ dmw.status = 401 /\ ValidChallenge(dmw.chal)
            /\ ~(\E i \in DOMAIN Split(dmw.chal, ",") :
                    ~HasEquals(Split(dmw.chal, ",")[i]))
            /\ ~LocalFailure) =>
              /\ dmw.sent = 1
              /\ dmw.response \in {"resent", "nil"}
              /\ dmw.response = "nil" <=> dmw.ret = ErrTransport
              /\ HasField(dmw.auth, "response")

\* The re-sent request was answered with 401 again, and the middleware is done.
C18_WitnessUnauthorizedAgain ==
    dmw.pc = "done" /\ dmw.sent = 1 /\ dmw.resent = 401 /\ dmw.response = "resent"

C19_RejectedFor(cond, e) ==
    /\ dmw.pc = "done" /\ dmw.err = NoError /\ dmw.status = 401
    /\ cond /\ dmw.ret = e /\ dmw.sent = 0 /\ dmw.response = "prior"
C19_WitnessMissing ==
    C19_RejectedFor(ChalMissing(dmw.chal), errDigestBadChallenge)
C19_WitnessNotDigest ==
    C19_RejectedFor(ChalNotDigest(dmw.chal), errDigestBadChallenge)
C19_WitnessNoEquals ==
    C19_RejectedFor(ChalNoEquals(dmw.chal) /\ ~ChalUnknownDirective(dmw.chal),
                    errDigestBadChallenge)
C19_WitnessUnknownDirective ==
    C19_RejectedFor(ChalUnknownDirective(dmw.chal) /\ ~ChalNoEquals(dmw.chal),
                    errDigestBadChallenge)
C19_WitnessAlgorithm ==
    C19_RejectedFor(ChalBadAlgorithm(dmw.chal), errDigestAlgNotSupported)
C19_WitnessQop ==
    C19_RejectedFor(ChalQopWithoutAuth(dmw.chal), errDigestQopNotSupported)

(***************************************************************************)
(* Claims about JA3                                                        *)
(***************************************************************************)
Ja3Version == ParseUint16(ja3.version)
Ja3Done == ja3.pc = "done"
\* The four lists of the JA3 string are accepted.
Ja3ListsAccepted ==
    /\ createCiphers(ja3.ciphers).err = NoError
    /\ createCurves(ja3.curves).err = NoError
    /\ createPointFormats(ja3.points).err = NoError
    /\ createExtensions(ja3.extensions, NilExtension, NilExtension, NilExtension).err = NoError

\* C20: the version token 771 gives TLSVersMax TLS 1.3 and TLSVersMin TLS 1.2,
\* 770 gives (1.2, 1.1), 769 gives (1.1, 1.0), and with any other token the
\* JA3 string is not applied; the supported-versions extension built lists
\* GREASE, then the maximum, then the minimum.
C20_VersionRangeOfToken ==
    (Ja3Done /\ ja3.tokens = 5 /\ Ja3ListsAccepted) =>
        /\ ja3.applied <=> (Ja3Version.err = NoError /\ Ja3Version.n \in {769, 770, 771})
        /\ ja3.applied =>
              /\ Ja3Version.n = 771 => (ja3.max = VersionTLS13 /\ ja3.min = VersionTLS12)
              /\ Ja3Version.n = 770 => (ja3.max = VersionTLS12 /\ ja3.min = VersionTLS11)
              /\ Ja3Version.n = 769 => (ja3.max = VersionTLS11 /\ ja3.min = VersionTLS10)
              /\ ja3.versions = <<GREASE_PLACEHOLDER, ja3.max, ja3.min>>

\* What the code does instead: the token is the maximum version itself, 772
\* for (1.3, 1.2), 771 for (1.2, 1.1), 770 for (1.1, 1.0); 769 and every
\* other token leave the client as it was.
C20_VersionTokenIsTheMaximum ==
    Ja3Done =>
        /\ ja3.applied <=> /\ ja3.tokens = 5 /\ Ja3ListsAccepted
                           /\ Ja3Version.err = NoError /\ Ja3Version.n \in {770, 771, 772}
        /\ ja3.applied =>
              /\ ja3.max = Ja3Version.n /\ ja3.min = Ja3Version.n - 1
              /\ ja3.versions = <<GREASE_PLACEHOLDER, ja3.max, ja3.min>>

\* "771,..." was applied, with TLS 1.2 as the maximum.
C20_Witness771 ==
    Ja3Done /\ ja3.applied /\ ja3.version = <<"7", "7", "1">> /\ ja3.max = VersionTLS12

\* A token is a decimal number of at most so many bits.
IsDecimal(t) == t # <<>> /\ \A i \in 1..Len(t) : \E d \in 1..10 : DecimalDigits[d] = t[i]
RECURSIVE NumberOf(_)
NumberOf(t) ==
    IF t = <<>> THEN 0
    ELSE LET n == 10 * NumberOf(SubSeq(t, 1, Len(t) - 1))
                  + (CHOOSE d \in 0..9 : DecimalDigits[d + 1] = t[Len(t)])
         IN IF n > 2^24 THEN 2^24 ELSE n
IsUint(t, bits) == IsDecimal(t) /\ NumberOf(t) < 2^bits
AllUint(l, bits) == \A i \in 1..Len(l) : IsUint(l[i], bits)
NumbersOf(l) == [i \in 1..Len(l) |-> NumberOf(l[i])]

ListDone(fn) == lst.pc = "done" /\ lst.fn = fn
\* An extension that is a GREASE: the one createExtensions inserts, or one
\* carrying the GREASE placeholder as its ID.
IsGREASE(ext) == ext.type = "UtlsGREASEExtension" \/ ext.id = GREASE_PLACEHOLDER
\* The number of GREASE the claim lets createExtensions insert at the front
\* and at the end of the extensions of the IDs ids.
FrontGREASE(ids) == IF ids[1] = GREASE_PLACEHOLDER THEN 0 ELSE 1
EndGREASE(ids) == IF ids[Len(ids)] = GREASE_PLACEHOLDER THEN 0 ELSE 1

\* C21: the list createExtensions builds for an accepted list of extension
\* tokens starts and ends with a GREASE extension, a GREASE being inserted at
\* an end only if none is there already, and holds between them one extension
\* per token, in the order of the tokens.
C21_GREASEInsertedIfAbsent ==
    (ListDone("createExtensions") /\ lst.err = NoError) =>
        LET ids == NumbersOf(lst.in)
            front == FrontGREASE(ids)
        IN /\ IsGREASE(lst.out[1]) /\ IsGREASE(lst.out[Len(lst.out)])
           /\ Len(lst.out) = front + Len(ids) + EndGREASE(ids)
           /\ \A i \in 1..Len(ids) : lst.out[front + i].id = ids[i]

\* What createExtensions does: it inserts a GREASE at both ends whatever the
\* tokens are, an extension made from a token never being a
\* UtlsGREASEExtension; the rest of C21 holds.
C21_GREASEAlwaysInserted ==
    ListDone("createExtensions") =>
        /\ lst.err = NoError <=> AllUint(lst.in, 16)
        /\ lst.err = NoError =>
              LET ids == NumbersOf(lst.in)
              IN /\ lst.out[1] = UtlsGREASEExtension
                 /\ lst.out[Len(lst.out)] = UtlsGREASEExtension
                 /\ Len(lst.out) = Len(ids) + 2
                 /\ \A i \in 1..Len(ids) :
                       /\ lst.out[1 + i].id = ids[i]
                       /\ lst.out[1 + i].type # "UtlsGREASEExtension"

C22_WitnessPrepended ==
    /\ ListDone("createCurves") /\ lst.err = NoError
    /\ lst.in = <<<<"4", "8", "6", "5">>, <<"1", "0">>>>
    /\ lst.out = <<GREASE_PLACEHOLDER, 4865, 10>>

\* The JA3 string is malformed.
Ja3Malformed ==
    \/ ja3.tokens # 5
    \/ ~IsUint(ja3.version, 16)
    \/ NumberOf(ja3.version) \notin 769..772
    \/ ~AllUint(ja3.ciphers, 16) \/ ~AllUint(ja3.extensions, 16)
    \/ ~AllUint(ja3.curves, 16) \/ ~AllUint(ja3.points, 8)
Ja3NothingInstalled ==
    /\ ~ja3.applied
    /\ ja3.max = 0 /\ ja3.min = 0 /\ ja3.versions = <<>>
    /\ ja3.cipherSuites = <<>> /\ ja3.exts = <<>>

AkamaiDone == ak.pc = "done"
\* The grammar of an Akamai string: four fields, every setting an ID below
\* 2^16 and a value that fits a uint32, a connection flow that fits a
\* uint32, and pseudo-header letters among m, a, s, p.
AkamaiSettingOK(st) == Len(st) = 2 /\ IsUint(st[1], Uint16Bits) /\ IsUint(st[2], Uint32Bits)
AkamaiWellFormed ==
    /\ ak.fields = 4
    /\ \A i \in 1..Len(ak.settings) : AkamaiSettingOK(ak.settings[i])
    /\ IsUint(ak.connFlow, Uint32Bits)
    /\ \A i \in 1..Len(ak.order) : ak.order[i] \in {"m", "a", "s", "p"}
PseudoHeaderOf(letter) ==
    CASE letter = "m" -> ":method" [] letter = "a" -> ":authority"
      [] letter = "s" -> ":scheme" [] letter = "p" -> ":path"
\* What a well-formed string says.
AkamaiExpected ==
    [InitialSetting |-> [i \in 1..Len(ak.settings) |->
                            [ID |-> NumberOf(ak.settings[i][1]),
                             Val |-> NumberOf(ak.settings[i][2])]],
     ConnFlow |-> NumberOf(ak.connFlow),
     OrderHeaders |-> [i \in 1..Len(ak.order) |-> PseudoHeaderOf(ak.order[i])]]

\* C24: after SetAkamaiWithStr on a well-formed Akamai string the client has
\* the settings as (ID, value) pairs in the written order, duplicates and
\* zeros kept, the second field as connection flow, and the pseudo-headers
\* in the written order of their letters.
C24_WellFormedAkamaiApplied ==
    (AkamaiDone /\ AkamaiWellFormed) => (ak.err = NoError /\ ak.h2 = AkamaiExpected)
\* A well-formed string with a duplicate setting ID and a zero value has been
\* applied.
C24_Witness ==
    /\ AkamaiDone /\ AkamaiWellFormed
    /\ Len(ak.settings) = 3 /\ ak.settings[1][1] = ak.settings[3][1]
    /\ ak.settings[2][2] = Itoa(0)
    /\ ak.order = <<"m", "a", "s", "p">>
    /\ ak.h2 # PriorH2
\* A well-formed string with the letters in another order has been applied.
C24_WitnessOrder ==
    /\ AkamaiDone /\ AkamaiWellFormed
    /\ ak.order = <<"p", "m">> /\ ak.h2.OrderHeaders = <<":path", ":method">>

\* C25: after SetAkamaiWithStr on a string outside the grammar the call has
\* failed and the client's settings, connection flow and pseudo-header
\* order are what they were.
C25_MalformedAkamaiRejected ==
    (AkamaiDone /\ ~AkamaiWellFormed) => (ak.err # NoError /\ ak.h2 = PriorH2)
\* The malformed strings that are rejected: those of another number of
\* fields, with a setting that is no pair, or with a number that is no
\* signed decimal.
C25_RejectedOnlyForSyntax ==
    (AkamaiDone /\ ak.err # NoError) => (~AkamaiWellFormed /\ ak.h2 = PriorH2)

\* ---- C26: redirect policies ----
\* The non-nil policies of the installed check up to the first that refuses.
RECURSIVE FirstRefusal(_, _)
FirstRefusal(l, i) ==
    IF i > Len(l) THEN 0
    ELSE IF l[i] \notin {NilPolicy, "allow"} THEN i ELSE FirstRefusal(l, i + 1)
ShouldInvoke(l, i) ==
    l[i] # NilPolicy /\ (FirstRefusal(l, 1) = 0 \/ i <= FirstRefusal(l, 1))
IsAscending(q) == \A i \in 1..Len(q) - 1 : q[i] < q[i + 1]

\* C26: the installed check invokes the non-nil policies in order up to the
\* first that returns an error, returns that error, and returns nil only if
\* every policy did; SetRedirectPolicy without policies leaves the check
\* as it was, and with policies installs them.
C26_PoliciesInOrderFirstErrorWins ==
    /\ rp.last = "check" =>
         /\ IsAscending(rp.invoked)
         /\ \A i \in 1..Len(rp.check) :
              ShouldInvoke(rp.check, i) <=> \E j \in 1..Len(rp.invoked) : rp.invoked[j] = i
         /\ rp.err = (IF FirstRefusal(rp.check, 1) = 0 THEN NoError
                      ELSE rp.check[FirstRefusal(rp.check, 1)])
    /\ rp.last = "set" =>
         rp.check = (IF rp.given = <<>> THEN rp.before ELSE rp.given)
\* A check with a nil policy, a refusal and a later refusal has been called.
C26_Witness ==
    /\ rp.last = "check" /\ rp.check = <<NilPolicy, "deny1", "deny2">>
    /\ rp.invoked = <<2>> /\ rp.err = "deny1"
\* SetRedirectPolicy() without policies came after one with policies.
C26_WitnessEmpty ==
    rp.last = "set" /\ rp.given = <<>> /\ rp.before # PreviousCheck /\ rp.check = rp.before

\* ---- C27: Clone ----
\* The sequences and parameters of client x as its slices and maps show them.
Middleware(x) ==
    [request |-> SliceSeq(cln.heap, cln.clients[x].udBeforeRequest),
     response |-> SliceSeq(cln.heap, cln.clients[x].afterResponse)]
Wrappers(x) == SliceSeq(cln.heap, cln.clients[x].roundTripWrappers)
Params(x) ==
    <<cln.clients[x].PathParams, cln.clients[x].QueryParams, cln.clients[x].FormData>>
\* A step on one of the two clients after Clone.
AfterClone == cln.cloned /\ cln'.ops = cln.ops + 1

\* C27: after c2 = c.Clone(), a registration of middleware or of a
\* round-trip wrapper or a change of parameters on one client leaves the
\* other's middleware, wrappers and parameters as they were, and with a
\* cookie jar factory c2 has a jar of its own.
C27_CloneKeepsClientsApart ==
    [][/\ AfterClone =>
            \A x \in ClientNames \ {cln'.actor} :
                /\ Middleware(x)' = Middleware(x)
                /\ Params(x)' = Params(x)
                /\ Wrappers(x)' = Wrappers(x)
       /\ (cln'.cloned /\ cln.factory # "nil") =>
            cln'.clients["c2"].Jar # cln'.clients["c"].Jar]_vars
\* What holds of it: the middleware and the parameters are kept apart, and
\* the jar is a new one.
C27_MiddlewareAndParamsApart ==
    [][/\ AfterClone =>
            \A x \in ClientNames \ {cln'.actor} :
                /\ Middleware(x)' = Middleware(x)
                /\ Params(x)' = Params(x)
       /\ (cln'.cloned /\ cln.factory # "nil") =>
            cln'.clients["c2"].Jar # cln'.clients["c"].Jar]_vars
\* The wrappers of the two clients lie in one array with room left.
C27_SharedWrappers ==
    /\ cln.cloned
    /\ cln.clients["c"].roundTripWrappers.arr = cln.clients["c2"].roundTripWrappers.arr
    /\ cln.clients["c"].roundTripWrappers.len = 4
    /\ cln.clients["c2"].roundTripWrappers.len = 4
    /\ Wrappers("c")[4] = "c2"

C29_WitnessNotNilBefore ==
    /\ pk.data = <<"t", "e", "s", "t">> /\ pk.calls = 1 /\ pk.plen = 2 /\ pk.n = 2
    /\ pk.peek = <<"s", "t">>

\* ---- C28: the single-use connection of a Connection: close request ----
\* Connection cc is in the pool's maps or is the result of a shared dial.
Pooled(cs, ks, dcs, cc) ==
    \/ cc \in DOMAIN ks
    \/ \E k \in DOMAIN cs : \E i \in 1..Len(cs[k]) : cs[k][i] = cc
    \/ \E id \in DOMAIN dcs : dcs[id].res = cc

\* C28: a GetClientConn for a request that demands its own connection, with
\* dialOnMiss, returns a newly dialed connection or the dial's error and
\* leaves the pool as it was; the connection is never in the pool and no
\* other GetClientConn call returns it.
C28_OwnConnNeverPooled ==
    [][/\ \A g \in Callers :
            (gs'[g].own /\ gs'[g].pc = "done" /\ gs'[g].res # NoConn) =>
                /\ ~Pooled(conns', keys', calls', gs'[g].res)
                /\ \A g2 \in Callers \ {g} : gs'[g2].res # gs'[g].res
       /\ \A g \in Callers :
            (gs[g].pc = "dialOwn" /\ gs'[g].pc = "done") =>
                /\ conns' = conns /\ keys' = keys /\ dialing' = dialing
                /\ IF gs'[g].err = NoErr
                   THEN gs'[g].res = nConns + 1 /\ nConns' = nConns + 1
                   ELSE gs'[g].res = NoConn /\ nConns' = nConns]_vars
\* One caller holds its own connection while another holds a pooled one for
\* the same key.
C28_Witness ==
    /\ gs[1].pc = "done" /\ gs[1].own /\ gs[1].res = 1
    /\ gs[2].pc = "done" /\ ~gs[2].own /\ gs[2].res = 2 /\ gs[2].addr = gs[1].addr
    /\ ConnsAt(gs[1].addr) = <<2>>
\* The single-use dial of a caller has failed.
C28_WitnessDialFailed ==
    \E g \in Callers : gs[g].pc = "done" /\ gs[g].own /\ gs[g].err # NoErr

\* ---- C30: MarkDead ----
\* Connection cc is in some key's list or in the reverse index.
Listed(cs, ks, cc) ==
    \/ cc \in DOMAIN ks
    \/ \E k \in DOMAIN cs : \E i \in 1..Len(cs[k]) : cs[k][i] = cc

\* C30: once MarkDead(c) has returned, c is in no key's list and not in the
\* reverse index, in that state and in every later one.
C30_DeadConnStaysAbsent ==
    \A cc \in DOMAIN dead : ~Listed(conns, keys, cc)
\* What holds of it: when MarkDead(c) returns, c is in no list and not in the
\* reverse index.
C30_AbsentWhenMarkDeadReturns ==
    [][\A cc \in ConnIds : MarkDead(cc) => ~Listed(conns', keys', cc)]_vars
\* MarkDead has removed a connection that was in the pool.
C30_WitnessRemoved ==
    \E cc \in DOMAIN dead : dead[cc] > 0 /\ ~Listed(conns, keys, cc) /\ conns = EmptyMap
                            /\ \E g \in Callers : gs[g].pc = "done" /\ gs[g].res = cc

\* ---- C31: the pool mutex is not held across a wait ----
\* C31: a goroutine that waits for a dial to finish does not hold p.mu: the
\* mutex is free or held by a GetClientConn call that is inside its critical
\* section, so a dial that has returned is never kept from publishing by a
\* waiter.
C31_NoWaitUnderMutex ==
    /\ \A g \in Callers : gs[g].pc # "locked" => mu # Holder("GetClientConn", g)
    /\ mu # Free => \E g \in Callers : mu = Holder("GetClientConn", g) /\ gs[g].pc = "locked"
\* The same of AddConnIfNeeded and the addConnCall2 it waits for.
C31_NoAddConnWaitUnderMutex ==
    /\ \A a \in Adders : adders[a].pc # "locked" => mu # Holder("AddConnIfNeeded", a)
    /\ mu # Free => \E a \in Adders : mu = Holder("AddConnIfNeeded", a) /\ adders[a].pc = "locked"
\* A dial has published its result while both callers wait for it.
C31_Witness ==
    /\ \A g \in Callers : gs[g].pc = "wait" /\ gs[g].call = 1
    /\ calls[1].state = "published" /\ mu = Free
\* Both AddConnIfNeeded calls wait for one addConnCall2 that has published.
C31_WitnessAddConn ==
    /\ \A a \in Adders : adders[a].pc = "wait" /\ adders[a].call = 1
    /\ addCalls[1].state = "published" /\ mu = Free

\* ---- C32: the extensions made ahead ----
\* The extension that has to stand for the i-th extension ID of the JA3
\* string: for 10, 11 and 43 the one made from the curves, the points and
\* the version token of that string.
PrebuiltFor(i) ==
    LET id == NumberOf(ja3.extensions[i]) IN
    CASE id = 10 -> [type |-> "SupportedCurvesExtension", id |-> 10,
                     data |-> createCurves(ja3.curves).out]
      [] id = 11 -> [type |-> "SupportedPointsExtension", id |-> 11,
                     data |-> NumbersOf(ja3.points)]
      [] id = 43 -> [type |-> "SupportedVersionsExtension", id |-> 43,
                     data |-> <<GREASE_PLACEHOLDER, ja3.max, ja3.min>>]
      [] OTHER -> NilExtension

\* C32: in the extensions of an applied JA3 string every ID 10, 11 and 43
\* stands, at the place it has in the JA3 (behind the leading GREASE), as the
\* supported-curves, supported-points and supported-versions extension made
\* from that string's curves, points and version token; every other ID as an
\* extension of that ID.
C32_PrebuiltExtensionsInPlace ==
    (Ja3Done /\ ja3.applied) =>
        /\ Len(ja3.exts) = Len(ja3.extensions) + 2
        /\ \A i \in 1..Len(ja3.extensions) :
             IF NumberOf(ja3.extensions[i]) \in {10, 11, 43}
             THEN ja3.exts[i + 1] = PrebuiltFor(i)
             ELSE ja3.exts[i + 1].id = NumberOf(ja3.extensions[i])
\* A JA3 string with the extensions 43, 10, 11 and the version 772 has been
\* applied.
C32_Witness ==
    /\ Ja3Done /\ ja3.applied
    /\ ja3.extensions = <<<<"4", "3">>, <<"1", "0">>, <<"1", "1">>>>
    /\ ja3.version = <<"7", "7", "2">>
    /\ ja3.exts[2].data = <<GREASE_PLACEHOLDER, VersionTLS13, VersionTLS12>>
    /\ ja3.exts[3].data = <<GREASE_PLACEHOLDER, 29>>
    /\ ja3.exts[4].data = <<0, 1>>

\* ---- C33: an Extended CONNECT waiting for SETTINGS ----
\* C33: an Extended CONNECT request that waits for the peer's SETTINGS
\* returns with the error of its context once that context is done.
C33_CancelledConnectReturns ==
    (h3req.pc = "settings" /\ h3req.ctxDone)
        ~> (h3req.pc = "done" /\ h3req.err = ErrReqContext)
\* What holds of it: the wait for SETTINGS ends once the SETTINGS have
\* arrived or the connection is closed, and the wait for the handshake ends
\* with the context's error once the request context is done.
C33_WaitEndsWithConnection ==
    /\ (h3req.pc = "settings" /\ (settingsArrived \/ closeCode # Open))
           ~> (h3req.pc # "settings")
    /\ (h3req.pc = "handshake" /\ h3req.ctxDone) ~> (h3req.pc # "handshake")
\* The request waits for SETTINGS on an open connection with its context done.
C33_Stuck ==
    h3req.pc = "settings" /\ h3req.ctxDone /\ closeCode = Open /\ ~settingsArrived

\* C34: receivedSettings is closed only by a control stream that passed the
\* swap and whose first frame parsed as SETTINGS, after the settings are
\* stored; the step that reads a first frame that cannot be parsed calls
\* CloseWithError with H3_FRAME_ERROR, the step that reads a frame of another
\* type calls it with H3_MISSING_SETTINGS (the code of the connection from
\* then on, unless it was closed before), and after either receivedSettings
\* is never closed.
C34_ReadyOnlyAfterFirstSettings ==
    [][/\ receivedSettings' # receivedSettings =>
            \E s \in UniStreams :
               /\ uni[s].pc = "ready" /\ uni[s].type = "control"
               /\ uni[s].frame.kind = "settings"
               /\ settings = uni[s].frame
               /\ \A t \in UniStreams \ {s} :
                     uni[t].type = "control" => uni[t].pc \in {"closeDuplicate", "closed"}
       /\ \A s \in UniStreams :
            (uni[s].pc = "parse" /\ uni'[s].pc = "done") =>
               /\ uni'[s].frame.kind \in {"error", "other"}
               /\ closeCode' =
                    IF closeCode # Open THEN closeCode
                    ELSE IF uni'[s].frame.kind = "error" THEN ErrCodeFrameError
                    ELSE ErrCodeMissingSettings
       /\ \A s \in UniStreams :
            uni'[s].frame.kind \in {"error", "other"} =>
               /\ closeCode' # Open
               /\ receivedSettings' = 0
               /\ settings' = NoSettings
      ]_vars

\* C34 witness: the first frame of the control stream could not be parsed,
\* the connection is closed with H3_FRAME_ERROR and receivedSettings is open,
\* with a second control stream turned away.
C34_Witness ==
    /\ \E s \in UniStreams : uni[s].frame.kind = "error" /\ uni[s].pc = "done"
    /\ \E s \in UniStreams : uni[s].type = "control" /\ uni[s].pc = "closed"
    /\ closeCode = ErrCodeFrameError
    /\ receivedSettings = 0

\* C34 witness: the first frame is of another type and the connection is
\* closed with H3_MISSING_SETTINGS.
C34_WitnessMissingSettings ==
    /\ \E s \in UniStreams : uni[s].frame.kind = "other" /\ uni[s].pc = "done"
    /\ closeCode = ErrCodeMissingSettings
    /\ receivedSettings = 0

\* C35: the two indexes of the pool agree: cc is in p.conns[k] exactly when k
\* is in p.keys[cc]; no connection is twice in the list of one key, no key
\* twice in the list of one connection, and neither map holds an empty list.
C35_IndexesAgree ==
    /\ \A k \in DOMAIN conns : \A i \in 1..Len(conns[k]) :
          /\ conns[k][i] \in DOMAIN keys
          /\ k \in SeqToSet(keys[conns[k][i]])
    /\ \A cc \in DOMAIN keys : \A i \in 1..Len(keys[cc]) :
          /\ keys[cc][i] \in DOMAIN conns
          /\ cc \in SeqToSet(conns[keys[cc][i]])
    /\ \A k \in DOMAIN conns :
          /\ conns[k] # <<>>
          /\ \A i, j \in 1..Len(conns[k]) : conns[k][i] = conns[k][j] => i = j
    /\ \A cc \in DOMAIN keys :
          /\ keys[cc] # <<>>
          /\ \A i, j \in 1..Len(keys[cc]) : keys[cc][i] = keys[cc][j] => i = j

\* C35 witness: MarkDead took a connection out of the pool, and another
\* connection is listed under the key it was dialed for.
C35_Witness ==
    \E k \in DOMAIN conns : \E cc \in DOMAIN dead :
       /\ Len(conns[k]) = 1
       /\ cc \notin DOMAIN keys
       /\ \E id \in DOMAIN calls :
             /\ calls[id].state \in {"published", "done"}
             /\ calls[id].res = cc /\ calls[id].addr = k /\ calls[id].err = NoErr

\* C35 witness: two connections are listed under one key.
C35_WitnessTwoConns ==
    \E k \in DOMAIN conns : Len(conns[k]) = 2

\* C35 witness: MarkDead removed the last connection of a key, and the key
\* with it.
C35_WitnessKeyDeleted ==
    /\ conns = EmptyMap /\ keys = EmptyMap
    /\ \E cc \in DOMAIN dead : \E id \in DOMAIN calls :
          calls[id].state = "done" /\ calls[id].res = cc /\ calls[id].err = NoErr

\* C36: receivedSettings is closed at most once, it is closed only when the
\* settings are stored, and the stored settings do not change once it is
\* closed: whoever found ReceivedSettings() closed reads the settings of the
\* SETTINGS frame from Settings().
C36_ClosedOnceWithSettingsStored ==
    [][/\ receivedSettings' \in {receivedSettings, receivedSettings + 1}
       /\ receivedSettings' \in {0, 1}
       /\ receivedSettings' = 1 =>
             /\ settings' # NoSettings
             /\ settings'.kind = "settings"
       /\ receivedSettings = 1 => settings' = settings
      ]_vars

\* C36 witness: receivedSettings is closed with the settings stored, and a
\* second control stream, which did not get to the SETTINGS, has come and
\* gone.
C36_Witness ==
    /\ receivedSettings = 1
    /\ settings.kind = "settings"
    /\ \E s, t \in UniStreams :
          /\ uni[s].type = "control" /\ uni[s].pc = "done"
          /\ uni[t].type = "control" /\ uni[t].pc = "closed"

\* C36, the reader: an Extended CONNECT request that got past the wait for
\* the SETTINGS found them stored.
C36_ReaderFindsSettings ==
    (h3req.extended /\ h3req.pc \in {"open", "sendHeader", "readResponse"})
        => settings # NoSettings

\* C36 witness: an Extended CONNECT request was refused on reading the stored
\* settings.
C36_WitnessReader ==
    /\ h3req.extended /\ h3req.pc = "done" /\ h3req.err = ErrNoExtendedConnect
    /\ receivedSettings = 1 /\ settings.kind = "settings"

\* The n-th datagram the connection received is queued for ReceiveDatagram,
\* parses and names the stream id.
Arrived(n, id) ==
    \E i \in 1..Len(dg.inbox) :
       /\ dg.n + i = n
       /\ dg.inbox[i].parses /\ dg.inbox[i].q <= maxQuarterStreamID
       /\ 4 * dg.inbox[i].q = id

\* C37: once receiveDatagrams has been started, a datagram the open
\* connection received for a registered stream is eventually enqueued on that
\* stream's datagrammer, unless the connection is closed or the stream
\* unregistered before, whatever was received before it.
C37_ReceivedDatagramEnqueued ==
    \A n \in 1..MaxDatagrams : \A id \in StreamIDs :
       (dg.pc # "off" /\ closeCode = Open /\ id \in streams /\ Arrived(n, id))
          ~> (n \in SeqToSet(dgQueue[id]) \/ closeCode # Open \/ id \notin streams)

\* C37, what holds: the datagram that ReceiveDatagram hands out next, while
\* receiveDatagrams is in its loop, is enqueued on its stream if that is
\* registered, unless the connection is closed or the stream unregistered
\* before.
C37_NextDatagramEnqueued ==
    \A n \in 1..MaxDatagrams : \A id \in StreamIDs :
       (/\ dg.pc = "receive" /\ n = dg.n + 1
        /\ closeCode = Open /\ id \in streams /\ Arrived(n, id))
          ~> (n \in SeqToSet(dgQueue[id]) \/ closeCode # Open \/ id \notin streams)

\* C37: receiveDatagrams has returned on a datagram for an unknown stream; a
\* datagram for a registered stream that arrived after it stays in the
\* connection's queue, the connection being open.
C37_Stuck ==
    /\ dg.pc = "returned" /\ dg.n = 1
    /\ closeCode = Open
    /\ \E id \in streams : Arrived(2, id)

\* C38: with every goroutine scheduled, every dial returning and every
\* connection accepting at least one reservation, every call of GetClientConn
\* returns.
C38_GetClientConnReturns ==
    \A g \in Callers : (gs[g].pc # "idle") ~> (gs[g].pc = "done")

\* C38: the bound on the number of dials keeps no caller from starting the
\* dial the code would start.
C38_DialNeverHeldBack ==
    \A g \in Callers :
       (gs[g].pc = "locked" /\ gs[g].dialOnMiss /\ gs[g].addr \notin DOMAIN dialing)
          => nCalls < MaxCalls

\* C38 witness: a caller whose reservation on the dialed connection failed
\* went back to the scan, had a second dial made and returned its connection.
C38_Witness ==
    \E g \in Callers :
       /\ gs[g].pc = "done" /\ gs[g].err = NoErr
       /\ refused /\ nCalls = 2
       /\ gs[g].res = 2 /\ \E o \in Callers \ {g} : gs[o].pc = "done" /\ gs[o].res = 1

\* C39: when roundTrip has returned, the response is not nil and its Err is
\* the returned error: the error of GetBody, with no request sent and no
\* post-response middleware invoked; else the error of the last middleware
\* that returned one; else the transport's error, or nil.
C39_ResponseCarriesReturnedError ==
    rt.pc = "done" =>
        /\ rt.resp # "nil"
        /\ rt.respErr = rt.err
        /\ LET failedMw == {k \in 1..Len(rt.invoked) : rt.invoked[k].e # NilErr} IN
           /\ rt.err.kind = "GetBody" <=> ~rt.sent
           /\ ~rt.sent => (rt.hasGetBody /\ rt.invoked = <<>>)
           /\ rt.sent => Len(rt.invoked) = Len(afterResponse)
           /\ (rt.sent /\ failedMw # {}) =>
                 \E k \in failedMw :
                    /\ \A j \in failedMw : j <= k
                    /\ rt.err = rt.invoked[k].e
           /\ (rt.sent /\ failedMw = {}) => rt.err \in {NilErr, TransportErr}

\* C39 witness: GetBody failed; roundTrip has returned its error, nothing was
\* sent and no middleware ran.
C39_Witness ==
    /\ rt.pc = "done" /\ rt.err = GetBodyErr /\ rt.respErr = GetBodyErr
    /\ ~rt.sent /\ rt.invoked = <<>>

\* C39 witness: the transport failed and every middleware returned nil.
C39_WitnessTransport ==
    /\ rt.pc = "done" /\ rt.err = TransportErr /\ rt.respErr = TransportErr
    /\ Len(rt.invoked) = Len(afterResponse)

\* C39 witness: the transport failed and a middleware returned an error,
\* which is the one returned.
C39_WitnessMiddleware ==
    /\ rt.pc = "done" /\ rt.err.kind = "middleware" /\ rt.respErr = rt.err
    /\ rt.sent

=============================================================================
